---------------------------- MODULE Spec2Model ----------------------------
(***************************************************************************)
(* A model of the media server of localvidconf: the signaling handlers    *)
(* (join-meeting, disconnect, the host controls, the mediasoup signaling)  *)
(* acting on the durable participant / meeting rows, on the in-memory      *)
(* Rooms and Peers and on the Socket.IO broadcast groups.                  *)
(*                                                                         *)
(* Every handler is an async function.  One action of the model is the     *)
(* code between two awaits: the awaited database or mediasoup call takes   *)
(* effect and the code that follows it runs up to the next await.  A       *)
(* handler that is suspended at an await is a task in `tasks`, with the    *)
(* local variables it holds across the await.                              *)
(*                                                                         *)
(* The rate limiter is followed in SpecRate only: a request it drops       *)
(* returns before any effect, so a run with dropped requests has the      *)
(* states of the run without them, and the other specifications have the  *)
(* requests that pass it.  In the specifications below the host controls  *)
(* and the media requests are sent on connections that have joined a      *)
(* meeting.                                                                *)
(***************************************************************************)
EXTENDS Integers, FiniteSets, Sequences, TLC

\* ------------------------------------------------------------------ bounds
Users    == {"u1", "u2"}
Meetings == {"m1", "m2"}
Conns    == {"c1", "c2", "c3"}
BrIds    == {"b1", "b2"}
Qids     == {"q1"}

\* The number of handlers that may be suspended at an await at once.
MaxInflight == 2
\* The number of requests the clients send in one run.
MaxRequests == 4
\* The number of requests of a run of the media signaling.
MaxMedia == 6
\* Peer and Room objects alive at the same time.
MaxPeerObjs == 4
MaxRoomObjs == 3

Slots   == 1..MaxInflight
PeerIds == 1..MaxPeerObjs
RoomIds == 1..MaxRoomObjs

\* socket.data.user, set from the token at the handshake.
UserOf(c) == IF c = "c1" THEN "u1" ELSE "u2"

\* A participant id; the row is unique per (userId, meetingId).
Pids  == Users \X Meetings
NoPid == <<"none", "none">>
None  == "none"

Roles     == {"HOST", "CO_HOST", "PARTICIPANT"}
Statuses  == {"IN_LOBBY", "IN_MEETING", "IN_BREAKOUT", "REMOVED"}

VARIABLES
    meeting,      \* durable: meeting rows, by code
    participant,  \* durable: participant rows, by id
    leftAt,       \* durable: the leftAt column of the participant rows
    rooms,        \* the meetingCode -> Room map (0: no entry)
    roomObj,      \* the Room objects
    peerObj,      \* the Peer objects
    sock,         \* the sockets: connection state, socket.data, socket.rooms
    tasks,        \* the handlers suspended at an await
    nreq,         \* requests received so far
    breakout,     \* durable: breakout room rows, by id
    question,     \* durable: question rows, by id
    invitation,   \* durable: the number of invitation rows, by meeting
    cron,         \* ReminderScheduler: the reminder rows and the cron job
    chat,         \* durable: the chatMessage rows; history: the messages
                  \* of the last answer of get-chat-history, the
                  \* connection it went to, and with each row the group
                  \* its 'new-chat' was sent to
    pool,         \* the mediasoup workers and workerIndex
    timers,       \* the pending auto-close timers of create-breakout
    last,         \* history: the last request received, and whether its
                  \* handler went past its first check
    waiting,      \* history: the participants join-meeting created IN_LOBBY
                  \* whom no host has admitted, or made host, since
    upvote,       \* the rows of the upvote table
    now,          \* Date.now(), in milliseconds
    counters,     \* rateLimiter.ts: the counter of each socket and category
    out,          \* the events the last step has emitted to groups, in order
    shut          \* history: the meetings whose Room has been closed and
                  \* taken out of the map, with no Room created since

dbVars  == <<meeting, participant, leftAt>>
memVars == <<rooms, roomObj, peerObj, shut>>
hostVars == <<breakout, question, upvote, invitation, cron, chat, pool, timers>>
rateVars == <<now, counters>>
vars    == <<meeting, participant, leftAt, rooms, roomObj, peerObj, sock, tasks,
             nreq, breakout, question, upvote, invitation, cron, chat, pool, timers, last,
             waiting, out, shut, now, counters>>

\* ------------------------------------------------------------ durable rows
NoRow == [ex |-> FALSE, role |-> "PARTICIPANT", status |-> "REMOVED", brId |-> None]

Row(role, status) == [ex |-> TRUE, role |-> role, status |-> status, brId |-> None]

\* POST /api/meetings: the meeting row and the creator's HOST participant row.
InitMeeting == [m \in Meetings |->
    [hostId       |-> IF m = "m1" THEN "u1" ELSE "u2",
     lobbyEnabled |-> (m = "m1"),
     status       |-> "SCHEDULED",
     ex           |-> TRUE]]

InitParticipant == [p \in Pids |->
    IF InitMeeting[p[2]].hostId = p[1] THEN Row("HOST", "IN_MEETING") ELSE NoRow]

\* participant.leftAt: null, or the time of new Date().
NullAt == [null |-> TRUE, t |-> 0]

At(t) == [null |-> FALSE, t |-> t]

\* The reminder rows, each with its type and its meeting; both are due
\* (triggerAt <= now) from the start.
Rids == {"r1", "r2"}

ReminderType(r) == IF r = "r1" THEN "EMAIL" ELSE "IN_APP"

ReminderMeeting(r) == IF r = "r1" THEN "m2" ELSE "m1"

\* The scheduler.  rem: the reminder rows; pc: where the callback of the
\* cron job is suspended (idle: it is not running); due: the reminders
\* findMany returned that are still to be processed, each with the
\* participants included; todo: the participants of the first of them still
\* to be mailed; stale: the meetings the findMany of the cleanup returned.
\* failed is history: a sendMail for the first of due has thrown.
InitCron ==
    [pc |-> "idle",
     rem |-> [r \in Rids |-> [ex |-> TRUE, sent |-> FALSE]],
     due |-> <<>>, todo |-> <<>>, failed |-> FALSE, stale |-> {}]

\* A breakoutRoom row and a question row.
NoBreakoutRow == [ex |-> FALSE, meetingId |-> None, isActive |-> FALSE]

NoQuestion == [ex |-> FALSE, meetingId |-> None, isAnswered |-> FALSE, isPinned |-> FALSE]

\* ------------------------------------------------------------------- Peer
\* send, recv: the transport (0: null); sendOn, recvOn: the router it was
\* created on; prods: the producers, each with its id and its appData.type;
\* cons: the consumers, each with its id and the id of its producer; dead:
\* the transports Peer.close has closed.  closed is history: Peer.close has
\* been called on the object.
FreePeer == [alloc |-> FALSE, c |-> None, pid |-> NoPid,
             send |-> 0, recv |-> 0, sendOn |-> None, recvOn |-> None,
             prods |-> {}, cons |-> {}, dead |-> {}, closed |-> FALSE]

NewPeer(c, pid) == [FreePeer EXCEPT !.alloc = TRUE, !.c = c, !.pid = pid]

\* Peer.close: producers and consumers closed and cleared, transports closed
\* and set to null.
PeerClose(p) ==
    [p EXCEPT !.send = 0, !.recv = 0, !.sendOn = None, !.recvOn = None,
              !.prods = {}, !.cons = {},
              !.dead = @ \cup ({p.send, p.recv} \ {0}),
              !.closed = TRUE]

\* ------------------------------------------------------------------- Room
NoPeers == [c \in Conns |-> 0]

NoBreakout == [has |-> FALSE, peers |-> NoPeers]

FreeRoom == [alloc |-> FALSE, code |-> None, peers |-> NoPeers,
             br |-> [b \in BrIds |-> NoBreakout], closed |-> FALSE]

NewRoom(code) == [FreeRoom EXCEPT !.alloc = TRUE, !.code = code]

\* The peer objects a room holds, in any scope.
RoomPeerIds(r) ==
    ({r.peers[c] : c \in Conns} \cup
     UNION {{r.br[b].peers[c] : c \in Conns} : b \in BrIds}) \ {0}

\* Room.getPeer: the main scope first, then the breakouts.
GetPeer(r, c) ==
    IF r.peers[c] # 0 THEN r.peers[c]
    ELSE IF \E b \in BrIds : r.br[b].peers[c] # 0
         THEN r.br[CHOOSE b \in BrIds : r.br[b].peers[c] # 0].peers[c]
         ELSE 0

\* Room.getPeerCount / isEmpty.
GetPeerCount(r) ==
    Cardinality({c \in Conns : r.peers[c] # 0}) +
    Cardinality({<<b, c>> \in BrIds \X Conns : r.br[b].peers[c] # 0})

IsEmpty(r) == GetPeerCount(r) = 0

\* Room.addPeer.
AddPeer(r, c, i) == [r EXCEPT !.peers[c] = i]

\* Room.removePeer: the room after it, and the peers it closed.
RemovePeer(r, c) ==
    [r EXCEPT !.peers[c] = 0,
              !.br = [b \in BrIds |-> [r.br[b] EXCEPT !.peers[c] = 0]]]

RemovedPeerIds(r, c) ==
    ({r.peers[c]} \cup {r.br[b].peers[c] : b \in BrIds}) \ {0}

\* consumer.on('producerclose'): the consumers of the producers gone are
\* removed from their Peers; the worker's notice is taken with the close.
DropConsumers(po, gone) ==
    [i \in PeerIds |-> [po[i] EXCEPT !.cons = {x \in @ : x.prod \notin gone}]]

\* Closing a set of peers in the heap.
ClosePeers(po, ids) ==
    DropConsumers([i \in PeerIds |-> IF i \in ids THEN PeerClose(po[i]) ELSE po[i]],
                  UNION {{pr.id : pr \in po[i].prods} : i \in ids})


\* ---------------------------------------------------------------- sockets
Group(kind, id) == <<kind, id>>

NewSock == [st |-> "open", code |-> None, pid |-> NoPid, groups |-> {}]

\* socket.join / socket.leave on the socket's set of groups.
SockJoin(sk, c, g)  == [sk EXCEPT ![c].groups = @ \cup {g}]
SockLeave(sk, c, g) == [sk EXCEPT ![c].groups = @ \ {g}]

\* socket.data.meetingCode / meetingId / participantId, set together.
SockBind(sk, c, code, pid) == [sk EXCEPT ![c].code = code, ![c].pid = pid]

\* io.sockets.adapter.rooms.get(group): the member sockets.
Members(sk, g) == {c \in Conns : g \in sk[c].groups}

\* ----------------------------------------------------------------- events
\* io.to(g).emit(ev, { id }): the event with the connections it is
\* delivered to, the members of the group at that time.
ToGroup(sk, ev, g, id) == [ev |-> ev, group |-> g, to |-> Members(sk, g), id |-> id]

\* socket.to(g).emit(ev, { id }) on the socket of c: the members but c.
ToOthers(sk, c, ev, g, id) ==
    [ev |-> ev, group |-> g, to |-> Members(sk, g) \ {c}, id |-> id]

\* The elements of a finite set, one after the other.
RECURSIVE SetToSeq(_)
SetToSeq(S) ==
    IF S = {} THEN <<>>
    ELSE LET x == CHOOSE y \in S : TRUE IN <<x>> \o SetToSeq(S \ {x})

\* The step emits the events evs; Silent: it emits nothing to a group.
Sent(evs) == out' = evs

Silent == Sent(<<>>)

\* ----------------------------------------------------------- rate limiter
Categories == {"media", "chat", "admin", "default"}

LIMITS ==
    [media   |-> [maxEvents |-> 30, windowMs |-> 1000],
     chat    |-> [maxEvents |-> 5,  windowMs |-> 1000],
     admin   |-> [maxEvents |-> 3,  windowMs |-> 1000],
     default |-> [maxEvents |-> 10, windowMs |-> 1000]]

\* EVENT_CATEGORIES[eventName] || 'default'.
EVENT_CATEGORIES(ev) ==
    CASE ev \in {"create-transport", "connect-transport", "produce", "consume",
                 "resume-consumer", "set-preferred-layers", "pause-producer",
                 "resume-producer"} -> "media"
      [] ev \in {"send-chat", "ask-question", "upvote-question"} -> "chat"
      [] ev \in {"kick-participant", "transfer-host", "lobby-admit", "lobby-reject",
                 "move-to-lobby", "invite-participant"} -> "admin"
      [] OTHER -> "default"

\* A counter of the map; has: the map has it.  ok is history: the number
\* of events of the bucket that checkRateLimit has allowed.
NoCounter == [has |-> FALSE, count |-> 0, resetTime |-> 0, ok |-> 0]

NoCounters == [cat \in Categories |-> NoCounter]

\* !counter || now >= counter.resetTime
Expired(k, t) == ~k.has \/ t >= k.resetTime

\* A comparison that lets one event more through.
ExceedsLate(count, max) == count > max + 1

\* counter.count > limit.maxEvents
Exceeds(count, max) == count > max

\* The counter of a category after an event at time t: a new bucket when
\* the window has expired, and counter.count++.
Counted(k, cat, t) ==
    LET base == IF Expired(k, t)
                THEN [has |-> TRUE, count |-> 0,
                      resetTime |-> t + LIMITS[cat].windowMs, ok |-> 0]
                ELSE k
    IN  [base EXCEPT !.count = @ + 1,
                     !.ok = IF Exceeds(base.count + 1, LIMITS[cat].maxEvents)
                            THEN @ ELSE @ + 1]

\* checkRateLimit(socket, eventName): the value it returns.
CheckRateLimit(c, ev) ==
    LET cat == EVENT_CATEGORIES(ev)
    IN  ~Exceeds(Counted(counters[c][cat], cat, now).count, LIMITS[cat].maxEvents)

\* The requests are within the limits, and the counters are not followed.
Unlimited == UNCHANGED rateVars

\* ----------------------------------------------------------- worker pool
\* NUM_WORKERS, which the source takes from the number of CPUs.
NumWorkers == 3

\* The most workers mediasoup.createWorker makes in a run: only the workers
\* of createWorkers have a 'died' listener, and each asks for one replacement.
MaxWorkers == 2 * NumWorkers

\* The pool after createWorkers().  workers: the array, each entry with the
\* worker's id and whether a 'died' listener was put on it; index:
\* workerIndex, a number or NaN; alive: the worker processes that run;
\* pending: the createWorker promises of the 'died' listeners that have not
\* resolved; made: the workers created so far.  got is history: the value
\* the last getNextWorker returned (0: undefined).
InitPool ==
    [workers |-> [k \in 1..NumWorkers |-> [id |-> k, listens |-> TRUE]],
     index   |-> [nan |-> FALSE, i |-> 0],
     alive   |-> 1..NumWorkers,
     pending |-> 0,
     made    |-> NumWorkers,
     got     |-> 0]

\* The steps of the pool leave everything else alone.
PoolFrame ==
    /\ Silent
    /\ UNCHANGED <<dbVars, memVars, sock, tasks, nreq, rateVars, last, breakout,
                   question, upvote, invitation, cron, chat, timers, waiting>>

\* workers.splice(workers.indexOf(worker), 1)
Splice(ws, w) == SelectSeq(ws, LAMBDA x : x.id # w)

\* A worker process dies.  The 'died' listener, if the worker has one,
\* takes it out of the array and asks for a replacement.
WorkerDied(w) ==
    LET listens == \E k \in 1..Len(pool.workers) :
                       pool.workers[k].id = w /\ pool.workers[k].listens
    IN  /\ w \in pool.alive
        /\ pool' = IF listens
                   THEN [pool EXCEPT !.alive = @ \ {w},
                                     !.workers = Splice(@, w),
                                     !.pending = @ + 1]
                   ELSE [pool EXCEPT !.alive = @ \ {w}]
        /\ PoolFrame

\* mediasoup.createWorker(...).then(newWorker => workers.push(newWorker)):
\* the replacement arrives; no 'died' listener is put on it.
Replaced ==
    /\ pool.pending > 0
    /\ pool' = [pool EXCEPT !.pending = @ - 1,
                            !.made = @ + 1,
                            !.alive = @ \cup {pool.made + 1},
                            !.workers = Append(@, [id |-> pool.made + 1,
                                                   listens |-> FALSE])]
    /\ PoolFrame

\* workers[workerIndex]: undefined beyond the array and for NaN.
WorkerAt(ws, x) ==
    IF ~x.nan /\ x.i < Len(ws) THEN ws[x.i + 1].id ELSE 0

\* (workerIndex + 1) % workers.length: NaN for an empty array and for NaN.
NextIndex(ws, x) ==
    IF x.nan \/ Len(ws) = 0 THEN [nan |-> TRUE, i |-> 0]
    ELSE [nan |-> FALSE, i |-> (x.i + 1) % Len(ws)]

\* getNextWorker(), as getOrCreateRoom and create-breakout call it.
GetNextWorker ==
    /\ pool' = [pool EXCEPT !.got = WorkerAt(pool.workers, pool.index),
                            !.index = NextIndex(pool.workers, pool.index)]
    /\ PoolFrame

\* ------------------------------------------------------------------ tasks
Idle == [ev |-> None, pc |-> None, c |-> None, pid |-> NoPid, code |-> None,
         host |-> None, lobby |-> FALSE, mst |-> None, ex |-> None,
         room |-> 0, jc |-> None, cur |-> NoPid, uid |-> None,
         mid |-> None, q |-> None, flag |-> FALSE, dur |-> FALSE,
         cfgs |-> <<>>, ids |-> <<>>, br |-> None, created |-> <<>>,
         peer |-> 0, tr |-> 0, kind |-> None, id |-> 0, prod |-> 0]

\* The task of slot s ends.
Done(s) == [tasks EXCEPT ![s] = Idle]

Task(ev, pc, c) == [Idle EXCEPT !.ev = ev, !.pc = pc, !.c = c]

FreeSlot == CHOOSE s \in Slots : tasks[s] = Idle /\ \A q \in Slots : q < s => tasks[q] # Idle

\* The record of a request: its event, its connection, and whether the
\* handler went past its first check.  seq: the requests since a
\* create-breakout of the host that found its Room without breakouts are
\* close-breakouts of its meeting mc only; pre: the members of the meeting
\* group when that request arrived.
Request(ev, c, ok) ==
    [ev |-> ev, c |-> c, ok |-> ok,
     seq |-> \/ /\ ev = "create-breakout" /\ ok
                /\ sock[c].code # None
                /\ rooms[sock[c].code] # 0
                /\ \A b \in BrIds : ~roomObj[rooms[sock[c].code]].br[b].has
             \/ ev = "close-breakouts" /\ last.seq /\ sock[c].code = last.mc,
     mc  |-> IF ev = "create-breakout" THEN sock[c].code
             ELSE IF ev = "close-breakouts" THEN last.mc ELSE None,
     pre |-> IF ev = "create-breakout"
             THEN Members(sock, Group("meeting", sock[c].code))
             ELSE IF ev = "close-breakouts" THEN last.pre ELSE {}]

\* A request is received: the connection is open, and the model's bounds on
\* the requests of a run and on the suspended handlers leave room for it.
CanStart(c) ==
    /\ sock[c].st = "open"
    /\ nreq < MaxRequests
    /\ \E s \in Slots : tasks[s] = Idle

\* ------------------------------------------------------ garbage collection
\* An object no map and no suspended handler refers to is garbage.  A Peer
\* that still holds a transport, a producer or a consumer is kept, so that
\* what it leaks stays in the state.
\* What holds references besides the maps: the suspended handlers ts and the
\* pending timers tm.
Held(ts, tm) == [ts |-> ts, tm |-> tm]

RoomRefs(rm, hd) ==
    ({rm[m] : m \in Meetings} \cup {hd.ts[s].room : s \in Slots}
                               \cup {x.room : x \in hd.tm}) \ {0}

SweepRooms(ro, rm, hd) ==
    [i \in RoomIds |-> IF i \in RoomRefs(rm, hd) THEN ro[i] ELSE FreeRoom]

PeerHolds(p) == p.send # 0 \/ p.recv # 0 \/ p.prods # {} \/ p.cons # {}

SweepPeers(po, ro, hd) ==
    LET refs == UNION {RoomPeerIds(ro[i]) : i \in RoomIds}
                    \cup {hd.ts[s].peer : s \in Slots}
    IN  [i \in PeerIds |-> IF i \in refs \/ PeerHolds(po[i]) THEN po[i] ELSE FreePeer]

\* The meetings without Room since one was closed, when the map becomes rm.
Shut(rm) ==
    (shut \cup {m \in Meetings : rooms[m] # 0 /\ rm[m] = 0})
        \ {m \in Meetings : rm[m] # 0}

HasFreePeer(po) == \E i \in PeerIds : ~po[i].alloc
FreshPeer(po)   == CHOOSE i \in PeerIds : ~po[i].alloc /\ \A j \in PeerIds : j < i => po[j].alloc

HasFreeRoom(ro) == \E i \in RoomIds : ~ro[i].alloc
FreshRoom(ro)   == CHOOSE i \in RoomIds : ~ro[i].alloc /\ \A j \in RoomIds : j < i => ro[j].alloc

\* ------------------------------------------------------------------- Init
Init ==
    /\ meeting = InitMeeting
    /\ participant = InitParticipant
    /\ rooms = [m \in Meetings |-> 0]
    /\ roomObj = [i \in RoomIds |-> FreeRoom]
    /\ peerObj = [i \in PeerIds |-> FreePeer]
    /\ sock = [c \in Conns |-> NewSock]
    /\ tasks = [s \in Slots |-> Idle]
    /\ nreq = 0
    /\ breakout = [b \in BrIds |-> NoBreakoutRow]
    /\ question = [q \in Qids |-> NoQuestion]
    /\ invitation = [m \in Meetings |-> 0]
    /\ leftAt = [p \in Pids |-> NullAt]
    /\ cron = InitCron
    /\ chat = [rows |-> <<>>, hist |-> <<>>, asker |-> None]
    /\ pool = InitPool
    /\ timers = {}
    /\ last = Request(None, None, FALSE)
    /\ waiting = {}
    /\ out = <<>>
    /\ shut = {}
    /\ upvote = {}
    /\ now = 0
    /\ counters = [c \in Conns |-> NoCounters]

\* --------------------------------------------------------- joinMeetingRoom
\* The rest of joinMeetingRoom once the Room is known: a new Peer is put in
\* the main scope, the socket joins meeting:<code> and is bound to the
\* meeting; a meeting read as SCHEDULED is then set LIVE (one more await).
\* rm, ro: the map and the Room objects, with the Room just created if any;
\* sk: the sockets as the caller left them; ts: the tasks with the caller's
\* own slot s still to be set.
AddToRoom(s, t, jc, pid, code, mst, sk, rm, ro) ==
    LET i   == FreshPeer(peerObj)
        ro2 == [ro EXCEPT ![rm[code]] = AddPeer(@, jc, i)]
        po2 == [peerObj EXCEPT ![i] = NewPeer(jc, pid)]
        ts2 == [tasks EXCEPT ![s] =
                   IF mst = "SCHEDULED"
                   THEN [t EXCEPT !.pc = "live", !.jc = jc, !.pid = pid,
                                  !.code = code, !.mst = mst, !.room = 0]
                   ELSE Idle]
    IN  /\ HasFreePeer(peerObj)
        /\ rooms' = rm
        /\ shut' = Shut(rm)
        /\ roomObj' = SweepRooms(ro2, rm, Held(ts2, timers))
        /\ peerObj' = SweepPeers(po2, roomObj', Held(ts2, timers))
        /\ sock' = SockBind(SockJoin(sk, jc, Group("meeting", code)), jc, code, pid)
        /\ tasks' = ts2
        /\ Sent(IF mst = "SCHEDULED" THEN <<>>
                ELSE <<ToOthers(sock', jc, "participant-joined",
                                Group("meeting", code), pid)>>)

\* joinMeetingRoom up to its first await: getOrCreateRoom returns the Room
\* of the map, or suspends at worker.createRouter.
JoinMeetingRoom(s, t, jc, pid, code, mst, sk) ==
    IF rooms[code] # 0
    THEN AddToRoom(s, t, jc, pid, code, mst, sk, rooms, roomObj)
    ELSE /\ tasks' = [tasks EXCEPT ![s] =
                         [t EXCEPT !.pc = "router", !.jc = jc, !.pid = pid,
                                   !.code = code, !.mst = mst]]
         /\ sock' = sk
         /\ Silent
         /\ UNCHANGED memVars

\* getOrCreateRoom after worker.createRouter: a new Room is put in the map
\* under the code, whatever the map held, and joinMeetingRoom goes on.
JoinRouter(s) ==
    LET t == tasks[s]
        r == FreshRoom(roomObj)
    IN  /\ t.ev \in {"join-meeting", "lobby-admit"} /\ t.pc = "router"
        /\ HasFreeRoom(roomObj)
        /\ AddToRoom(s, t, t.jc, t.pid, t.code, t.mst, sock,
                     [rooms EXCEPT ![t.code] = r],
                     [roomObj EXCEPT ![r] = NewRoom(t.code)])
        /\ UNCHANGED <<dbVars, nreq, rateVars, last, hostVars, waiting>>

\* joinMeetingRoom after prisma.meeting.update: the meeting is LIVE; the
\* update throws when the row has been deleted.
JoinLive(s) ==
    LET t == tasks[s]
    IN  /\ t.ev \in {"join-meeting", "lobby-admit"} /\ t.pc = "live"
        /\ meeting' = IF meeting[t.code].ex
                      THEN [meeting EXCEPT ![t.code].status = "LIVE"]
                      ELSE meeting
        /\ tasks' = [tasks EXCEPT ![s] = Idle]
        /\ Sent(IF meeting[t.code].ex
                THEN <<ToOthers(sock, t.jc, "participant-joined",
                                Group("meeting", t.code), t.pid)>>
                ELSE <<>>)
        /\ UNCHANGED <<participant, leftAt, memVars, sock, nreq, rateVars, last, hostVars, waiting>>

\* ----------------------------------------------------------- join-meeting
\* if (!meeting) ...; if (meeting.status === 'ENDED') ...
Joinable(m) == meeting[m].ex /\ meeting[m].status # "ENDED"

\* The request arrives and prisma.meeting.findUnique returns.
JoinStart(c, m) ==
    /\ CanStart(c)
    /\ nreq' = nreq + 1 /\ Unlimited
    /\ last' = Request("join-meeting", c, Joinable(m))
    /\ IF ~Joinable(m)
       THEN UNCHANGED tasks
       ELSE tasks' = [tasks EXCEPT ![FreeSlot] =
                [Task("join-meeting", "existing", c) EXCEPT
                    !.code = m, !.host = meeting[m].hostId,
                    !.lobby = meeting[m].lobbyEnabled, !.mst = meeting[m].status]]
    /\ Silent /\ UNCHANGED <<dbVars, memVars, sock, hostVars, waiting>>

\* prisma.participant.findUnique returns existingParticipant.
JoinExisting(s) ==
    LET t   == tasks[s]
        row == participant[<<UserOf(t.c), t.code>>]
    IN  /\ t.ev = "join-meeting" /\ t.pc = "existing"
        /\ tasks' = [tasks EXCEPT ![s] =
                        [t EXCEPT !.pc = "upsert",
                                  !.ex = IF row.ex THEN row.status ELSE None]]
        /\ Silent /\ UNCHANGED <<dbVars, memVars, sock, nreq, rateVars, last, hostVars, waiting>>

\* shouldLobby, from the meeting and the participant read before.
ShouldLobby(t) ==
    t.lobby /\ t.host # UserOf(t.c) /\ (t.ex = None \/ t.ex = "IN_LOBBY")

\* The row prisma.participant.upsert leaves.
UpsertRow(t, row) ==
    IF row.ex
    THEN [row EXCEPT !.status = IF ShouldLobby(t) THEN "IN_LOBBY" ELSE "IN_MEETING"]
    ELSE Row(IF t.host = UserOf(t.c) THEN "HOST" ELSE "PARTICIPANT",
             IF t.lobby /\ t.host # UserOf(t.c) THEN "IN_LOBBY" ELSE "IN_MEETING")

\* prisma.participant.upsert returns: the lobby hold, or joinMeetingRoom.
\* It throws when the meeting row has been deleted, and the handler ends.
JoinUpsert(s) ==
    LET t   == tasks[s]
        pid == <<UserOf(t.c), t.code>>
        row == UpsertRow(t, participant[pid])
    IN  /\ t.ev = "join-meeting" /\ t.pc = "upsert"
        /\ meeting[t.code].ex
        /\ participant' = [participant EXCEPT ![pid] = row]
        /\ leftAt' = [leftAt EXCEPT ![pid] = NullAt]
        /\ waiting' = IF ~participant[pid].ex /\ row.status = "IN_LOBBY"
                      THEN waiting \cup {pid} ELSE waiting
        /\ IF row.status = "IN_LOBBY"
           THEN /\ sock' = SockBind(SockJoin(sock, t.c, Group("lobby", t.code)),
                                    t.c, t.code, pid)
                /\ tasks' = [tasks EXCEPT ![s] = Idle]
                /\ Sent(<<ToGroup(sock, "lobby-participant",
                                  Group("meeting", t.code), pid)>>)
                /\ UNCHANGED memVars
           ELSE JoinMeetingRoom(s, t, t.c, pid, t.code, t.mst, sock)
        /\ UNCHANGED <<meeting, nreq, rateVars, last, hostVars>>

\* prisma.participant.upsert throws: the meeting row has been deleted, and
\* the handler ends in its catch.
JoinGone(s) ==
    LET t == tasks[s]
    IN  /\ t.ev = "join-meeting" /\ t.pc = "upsert"
        /\ ~meeting[t.code].ex
        /\ tasks' = [tasks EXCEPT ![s] = Idle]
        /\ Silent
        /\ UNCHANGED <<dbVars, memVars, sock, nreq, rateVars, last, hostVars, waiting>>

\* ------------------------------------------------------------ the memory
\* The in-memory objects as one value: the map rm, the Rooms ro, the Peers
\* po.  The Room methods below take it and return it.
Mem(rm, ro, po) == [rm |-> rm, ro |-> ro, po |-> po]

\* The memory after a step, with the garbage taken out.
SetMem(h, ts) ==
    /\ rooms' = h.rm
    /\ shut' = Shut(h.rm)
    /\ roomObj' = SweepRooms(h.ro, h.rm, ts)
    /\ peerObj' = SweepPeers(h.po, roomObj', ts)

\* room.removePeer(c) on Room i.
RemovePeerOf(i, h, c) ==
    [h EXCEPT !.ro[i] = RemovePeer(h.ro[i], c),
              !.po = ClosePeers(h.po, RemovedPeerIds(h.ro[i], c))]

\* Room.movePeerToBreakout(c, b) on Room i: the main Peer is closed and
\* taken out, and a new Peer is put in the breakout's map, if there is one.
MovePeerToBreakout(i, h, c, b, ts) ==
    LET old == h.ro[i].peers[c]
        ro1 == [h.ro EXCEPT ![i].peers[c] = 0]
        po1 == SweepPeers(ClosePeers(h.po, {old}), ro1, ts)
        n   == FreshPeer(po1)
    IN  IF old = 0 THEN h
        ELSE IF ~h.ro[i].br[b].has THEN [h EXCEPT !.ro = ro1, !.po = po1]
        ELSE [h EXCEPT !.ro = [ro1 EXCEPT ![i].br[b].peers[c] = n],
                       !.po = [po1 EXCEPT ![n] = NewPeer(c, h.po[old].pid)]]

\* The (breakout, connection) entries of the breakout maps of a Room.
BreakoutEntries(r) == {e \in BrIds \X Conns : r.br[e[1]].peers[e[2]] # 0}

\* The loop of Room.closeAllBreakouts: every breakout Peer is closed and a
\* new Peer of the same connection is set in the main map.
RECURSIVE ReturnPeers(_, _, _, _)
ReturnPeers(i, h, todo, ts) ==
    IF todo = {} THEN h
    ELSE LET e   == CHOOSE x \in todo : TRUE
             old == h.ro[i].br[e[1]].peers[e[2]]
             ro1 == [h.ro EXCEPT ![i].br[e[1]].peers[e[2]] = 0]
             po1 == SweepPeers(ClosePeers(h.po, {old}), ro1, ts)
             n   == FreshPeer(po1)
         IN  ReturnPeers(i,
                 [h EXCEPT !.ro = [ro1 EXCEPT ![i].peers[e[2]] = n],
                           !.po = [po1 EXCEPT ![n] = NewPeer(e[2], h.po[old].pid)]],
                 todo \ {e}, ts)

\* Room.closeAllBreakouts on Room i; it returns the connections moved.
CloseAllBreakouts(i, h, ts) ==
    [ReturnPeers(i, h, BreakoutEntries(h.ro[i]), ts)
        EXCEPT !.ro[i].br = [b \in BrIds |-> NoBreakout]]

MovedSocketIds(r) == {e[2] : e \in BreakoutEntries(r)}

\* Room.close on Room i: the main Peers are closed and the main map
\* cleared, then closeAllBreakouts, then the main router is closed.
RoomClose(i, h, ts) ==
    LET h1 == [h EXCEPT !.po = ClosePeers(h.po, {h.ro[i].peers[c] : c \in Conns} \ {0}),
                        !.ro[i].peers = NoPeers]
    IN  [CloseAllBreakouts(i, h1, ts) EXCEPT !.ro[i].closed = TRUE]

\* ------------------------------------------------------------- disconnect
\* for (const [producerId] of peer.getProducers()) emit 'producer-closed' to
\* the meeting group, for the Peer object p as it is at that point.
ClosedEvents(sk, code, p) ==
    LET q == SetToSeq({pr.id : pr \in p.prods})
    IN  [k \in 1..Len(q) |->
            ToGroup(sk, "producer-closed", Group("meeting", code), q[k])]

\* 'participant-left' and the 'producer-closed' events for the Peer taken
\* from the main scope under connection x of Room i; h1 is the memory after
\* room.removePeer.
LeftEvents(sk, code, pid, old, h1) ==
    <<ToGroup(sk, "participant-left", Group("meeting", code), pid)>>
        \o ClosedEvents(sk, code, h1.po[old])

\* The socket closes: it leaves every group before the handler runs.
DiscSock(c, sk) == [sk EXCEPT ![c].st = "closed", ![c].groups = {}]

\* The 'disconnect' handler up to its await: the Peer is removed from the
\* Room of socket.data.meetingCode, and a Room left empty is closed and
\* taken out of the map.
DiscMem(c, sk, h, ts) ==
    IF sk[c].code = None \/ h.rm[sk[c].code] = 0 THEN h
    ELSE LET i  == h.rm[sk[c].code]
             h1 == RemovePeerOf(i, h, c)
         IN  IF IsEmpty(h1.ro[i])
             THEN [RoomClose(i, h1, ts) EXCEPT !.rm[sk[c].code] = 0]
             ELSE h1

\* The events of the 'disconnect' handler: with a Peer of the connection
\* in the main scope, 'participant-left' and the 'producer-closed' loop.
DiscEvents(c, sk, h) ==
    IF sk[c].code = None \/ h.rm[sk[c].code] = 0 THEN <<>>
    ELSE LET i   == h.rm[sk[c].code]
             old == h.ro[i].peers[c]
         IN  IF old = 0 THEN <<>>
             ELSE LeftEvents(sk, sk[c].code, h.po[old].pid, old, RemovePeerOf(i, h, c))

\* cleanupRateLimitCounters(socket.id) at the end of the 'disconnect'
\* handler, which a socket without socket.data.meetingCode does not reach:
\* if (!meetingCode) return;
DiscCounters(c, sk, cn) ==
    IF sk[c].code = None THEN cn ELSE [cn EXCEPT ![c] = NoCounters]

\* prisma.participant.update({ where: { id: socket.data.participantId },
\* data: { leftAt: new Date() } }) of the 'disconnect' handler.
DiscLeftAt(c, sk, la, t) ==
    IF sk[c].code = None \/ sk[c].pid = NoPid THEN la
    ELSE [la EXCEPT ![sk[c].pid] = At(t)]

\* The client goes away.
Disconnect(c) ==
    /\ sock[c].st = "open"
    /\ sock' = DiscSock(c, sock)
    /\ Sent(DiscEvents(c, sock', Mem(rooms, roomObj, peerObj)))
    /\ SetMem(DiscMem(c, sock, Mem(rooms, roomObj, peerObj), Held(tasks, timers)), Held(tasks, timers))
    /\ leftAt' = DiscLeftAt(c, sock, leftAt, now)
    /\ counters' = DiscCounters(c, sock, counters)
    /\ UNCHANGED <<meeting, participant, tasks, nreq, now, last, hostVars, waiting>>

\* ---------------------------------------------------------- verifyHostRole
HostRoles == {"HOST", "CO_HOST"}

\* prisma.participant.findFirst({ where: { id, role: { in: roles } } }): the
\* ids of the rows it may return.  A socket that never joined has no
\* socket.data.participantId, and a filter on undefined is no filter.
FindFirst(id, roles) ==
    {p \in Pids : /\ participant[p].ex
                  /\ participant[p].role \in roles
                  /\ (id = NoPid \/ p = id)}

\* A role check that any participant row passes.
AnyRole(c) == FindFirst(sock[c].pid, Roles) # {}

\* verifyHostRole(socket, prisma) returns a participant.
VerifyHostRole(c) == FindFirst(sock[c].pid, HostRoles) # {}

\* The sockets of `peers` (a scope's map) whose Peer has participantId pid.
PeersOf(peers, po, pid) == {x \in Conns : peers[x] # 0 /\ po[peers[x]].pid = pid}

\* The connected sockets of group g whose socket.data.participantId is pid.
LobbySockets(sk, g, pid) == {x \in Members(sk, g) : sk[x].st = "open" /\ sk[x].pid = pid}

\* The task of a handler of connection c past the role check: it holds
\* socket.data.meetingCode, and RoomTask the Room of the map under it too.
HostTask(c, ev, pc) == [Task(ev, pc, c) EXCEPT !.code = sock[c].code]

RoomTask(c, ev, pc) ==
    [HostTask(c, ev, pc) EXCEPT
        !.room = IF sock[c].code = None THEN 0 ELSE rooms[sock[c].code]]

\* A host-only request arrives and the role check returns: the handler goes
\* on as task t0, or ends when the check returned no participant.
HostCheck(c, t0) ==
    /\ CanStart(c)
    /\ nreq' = nreq + 1
    /\ last' = Request(t0.ev, c, VerifyHostRole(c))
    /\ tasks' = IF VerifyHostRole(c) THEN [tasks EXCEPT ![FreeSlot] = t0] ELSE tasks
    /\ Silent /\ UNCHANGED <<dbVars, memVars, sock, hostVars, waiting>>

HostStart(c, t0) == HostCheck(c, t0) /\ Unlimited

\* The same for the handlers that end when the map has no Room for the code.
HostRoomStart(c, t0) ==
    /\ CanStart(c)
    /\ nreq' = nreq + 1 /\ Unlimited
    /\ last' = Request(t0.ev, c, VerifyHostRole(c))
    /\ tasks' = IF VerifyHostRole(c) /\ t0.room # 0
                THEN [tasks EXCEPT ![FreeSlot] = t0] ELSE tasks
    /\ Silent /\ UNCHANGED <<dbVars, memVars, sock, hostVars, waiting>>

\* ------------------------------------------------------------ lobby-admit
AdmitStart(c, pid) == HostStart(c, [HostTask(c, "lobby-admit", "update") EXCEPT !.pid = pid])

\* prisma.participant.update returns the admitted row with its meeting; the
\* first socket of lobby:<code> bound to the participant leaves the lobby
\* and goes through joinMeetingRoom.
AdmitUpdate(s) ==
    LET t == tasks[s]
        m == t.pid[2]
    IN  /\ t.ev = "lobby-admit" /\ t.pc = "update"
        /\ UNCHANGED <<meeting, nreq, rateVars, last, hostVars>>
        /\ IF ~participant[t.pid].ex
           THEN /\ tasks' = Done(s)
                /\ Silent /\ UNCHANGED <<participant, leftAt, memVars, sock, waiting>>
           ELSE /\ leftAt' = leftAt
                /\ participant' = [participant EXCEPT ![t.pid].status = "IN_MEETING"]
                /\ waiting' = waiting \ {t.pid}
                /\ IF LobbySockets(sock, Group("lobby", t.code), t.pid) = {}
                   THEN /\ tasks' = Done(s)
                        /\ Silent
                        /\ UNCHANGED <<memVars, sock>>
                   ELSE \E x \in LobbySockets(sock, Group("lobby", t.code), t.pid) :
                            JoinMeetingRoom(s, t, x, t.pid, m,
                                            meeting[m].status,
                                            SockLeave(sock, x, Group("lobby", t.code)))

\* ----------------------------------------------------------- lobby-reject
RejectStart(c, pid) == HostStart(c, [HostTask(c, "lobby-reject", "update") EXCEPT !.pid = pid])

RejectUpdate(s) ==
    LET t == tasks[s]
    IN  /\ t.ev = "lobby-reject" /\ t.pc = "update"
        /\ tasks' = Done(s)
        /\ Silent /\ UNCHANGED <<meeting, nreq, rateVars, last, hostVars, waiting>>
        /\ IF ~participant[t.pid].ex
           THEN UNCHANGED <<participant, leftAt, memVars, sock>>
           ELSE /\ leftAt' = leftAt
                /\ participant' = [participant EXCEPT ![t.pid].status = "REMOVED"]
                /\ IF LobbySockets(sock, Group("lobby", t.code), t.pid) = {}
                   THEN sock' = sock
                   ELSE \E x \in LobbySockets(sock, Group("lobby", t.code), t.pid) :
                            sock' = SockLeave(sock, x, Group("lobby", t.code))
                /\ roomObj' = SweepRooms(roomObj, rooms, Held(tasks', timers))
                /\ UNCHANGED <<rooms, shut, peerObj>>

\* ---------------------------------------------------------- move-to-lobby
MoveStart(c, pid) == HostStart(c, [RoomTask(c, "move-to-lobby", "target") EXCEPT !.pid = pid])

\* prisma.participant.findUnique returns the target: none, or the host, ends
\* the handler.
MoveTarget(s) ==
    LET t == tasks[s]
    IN  /\ t.ev = "move-to-lobby" /\ t.pc = "target"
        /\ tasks' = IF participant[t.pid].ex /\ participant[t.pid].role # "HOST"
                    THEN [tasks EXCEPT ![s].pc = "update"]
                    ELSE Done(s)
        /\ roomObj' = SweepRooms(roomObj, rooms, Held(tasks', timers))
        /\ Silent /\ UNCHANGED <<dbVars, rooms, shut, peerObj, sock, nreq, rateVars, last, hostVars, waiting>>

\* prisma.participant.update returns; the first Peer of the main scope with
\* the participant is removed and its socket moved to the lobby group.
MoveUpdate(s) ==
    LET t == tasks[s]
        h == Mem(rooms, roomObj, peerObj)
    IN  /\ t.ev = "move-to-lobby" /\ t.pc = "update"
        /\ tasks' = Done(s)
        /\ UNCHANGED <<meeting, nreq, rateVars, last, hostVars, waiting>>
        /\ IF ~participant[t.pid].ex
           THEN /\ SetMem(h, Held(tasks', timers))
                /\ Silent
                /\ UNCHANGED <<participant, leftAt, sock>>
           ELSE /\ leftAt' = leftAt
                /\ participant' = [participant EXCEPT ![t.pid].status = "IN_LOBBY"]
                /\ IF t.room = 0 \/ PeersOf(roomObj[t.room].peers, peerObj, t.pid) = {}
                   THEN /\ SetMem(h, Held(tasks', timers))
                        /\ Silent
                        /\ UNCHANGED sock
                   ELSE \E x \in PeersOf(roomObj[t.room].peers, peerObj, t.pid) :
                          LET h1 == RemovePeerOf(t.room, h, x)
                          IN  /\ SetMem(h1, Held(tasks', timers))
                              /\ sock' = IF sock[x].st = "open"
                                         THEN SockJoin(SockLeave(sock, x, Group("meeting", t.code)),
                                                       x, Group("lobby", t.code))
                                         ELSE sock
                              /\ Sent(IF sock[x].st = "open"
                                      THEN LeftEvents(sock', t.code, t.pid,
                                                      roomObj[t.room].peers[x], h1)
                                      ELSE <<>>)

\* ---------------------------------------------------------- transfer-host
\* The request arrives and findFirst({ id, role: 'HOST' }) returns
\* currentHost, or nothing.
TransferStart(c, newHostId) ==
    /\ CanStart(c)
    /\ nreq' = nreq + 1 /\ Unlimited
    /\ last' = Request("transfer-host", c, FindFirst(sock[c].pid, {"HOST"}) # {})
    /\ IF FindFirst(sock[c].pid, {"HOST"}) = {}
       THEN UNCHANGED tasks
       ELSE \E cur \in FindFirst(sock[c].pid, {"HOST"}) :
                tasks' = [tasks EXCEPT ![FreeSlot] =
                    [Task("transfer-host", "target", c) EXCEPT
                        !.pid = newHostId, !.cur = cur, !.code = sock[c].code]]
    /\ Silent /\ UNCHANGED <<dbVars, memVars, sock, hostVars, waiting>>

\* findUnique({ id: newHostId }) returns: the hostId the transaction will
\* write is the target's userId, or '' when there is no such row.
TransferTarget(s) ==
    LET t == tasks[s]
    IN  /\ t.ev = "transfer-host" /\ t.pc = "target"
        /\ tasks' = [tasks EXCEPT ![s] =
                [t EXCEPT !.pc = "txn",
                          !.uid = IF participant[t.pid].ex THEN t.pid[1] ELSE ""]]
        /\ Silent /\ UNCHANGED <<dbVars, memVars, sock, nreq, rateVars, last, hostVars, waiting>>

\* The rows after prisma.$transaction([demote, promote, meeting.update]),
\* which rolls back when one of the three updates finds no row.
TransferCommits(t) ==
    participant[t.cur].ex /\ participant[t.pid].ex /\ t.code # None

TransferParticipant(t) ==
    IF TransferCommits(t)
    THEN [[participant EXCEPT ![t.cur].role = "PARTICIPANT"] EXCEPT ![t.pid].role = "HOST"]
    ELSE participant

TransferMeeting(t) ==
    IF TransferCommits(t)
    THEN [meeting EXCEPT ![t.code].hostId = t.uid]
    ELSE meeting

TransferTxn(s) ==
    LET t == tasks[s]
    IN  /\ t.ev = "transfer-host" /\ t.pc = "txn"
        /\ leftAt' = leftAt
        /\ participant' = TransferParticipant(t)
        /\ meeting' = TransferMeeting(t)
        /\ waiting' = IF TransferCommits(t) THEN waiting \ {t.pid} ELSE waiting
        /\ tasks' = Done(s)
        /\ Sent(IF TransferCommits(t)
                THEN <<ToGroup(sock, "host-changed", Group("meeting", t.code), t.pid)>>
                ELSE <<>>)
        /\ UNCHANGED <<memVars, sock, nreq, rateVars, last, hostVars>>

\* ------------------------------------------------------- kick-participant
KickStart(c, pid) == HostStart(c, [RoomTask(c, "kick-participant", "target") EXCEPT !.pid = pid])

\* findUnique returns the target; a target with role HOST ends the handler.
KickTarget(s) ==
    LET t == tasks[s]
    IN  /\ t.ev = "kick-participant" /\ t.pc = "target"
        /\ tasks' = IF participant[t.pid].ex /\ participant[t.pid].role = "HOST"
                    THEN Done(s)
                    ELSE [tasks EXCEPT ![s].pc = "update"]
        /\ roomObj' = SweepRooms(roomObj, rooms, Held(tasks', timers))
        /\ Silent /\ UNCHANGED <<dbVars, rooms, shut, peerObj, sock, nreq, rateVars, last, hostVars, waiting>>

\* prisma.participant.update returns; the first Peer of the main scope with
\* the participant is removed, and its socket leaves the meeting group and
\* is disconnected, which runs its 'disconnect' handler.
KickUpdate(s) ==
    LET t == tasks[s]
        h == Mem(rooms, roomObj, peerObj)
    IN  /\ t.ev = "kick-participant" /\ t.pc = "update"
        /\ tasks' = Done(s)
        /\ UNCHANGED <<meeting, nreq, rateVars, last, hostVars, waiting>>
        /\ IF ~participant[t.pid].ex
           THEN /\ SetMem(h, Held(tasks', timers))
                /\ Silent
                /\ UNCHANGED <<participant, leftAt, sock>>
           ELSE /\ leftAt' = [leftAt EXCEPT ![t.pid] = At(now)]
                /\ participant' = [participant EXCEPT ![t.pid].status = "REMOVED"]
                /\ IF t.room = 0 \/ PeersOf(roomObj[t.room].peers, peerObj, t.pid) = {}
                   THEN /\ SetMem(h, Held(tasks', timers))
                        /\ Silent
                        /\ UNCHANGED sock
                   ELSE \E x \in PeersOf(roomObj[t.room].peers, peerObj, t.pid) :
                          LET h1  == RemovePeerOf(t.room, h, x)
                              sk1 == SockLeave(sock, x, Group("meeting", t.code))
                              old == roomObj[t.room].peers[x]
                          IN  IF sock[x].st = "open"
                              THEN /\ sock' = DiscSock(x, sk1)
                                   /\ SetMem(DiscMem(x, sk1, h1, Held(tasks', timers)),
                                             Held(tasks', timers))
                                   /\ Sent(DiscEvents(x, sock', h1)
                                           \o LeftEvents(sock', t.code, t.pid, old, h1))
                              ELSE /\ sock' = sock
                                   /\ SetMem(h1, Held(tasks', timers))
                                   /\ Sent(LeftEvents(sock, t.code, t.pid, old, h1))

\* ------------------------------------------------------------ end-meeting
EndStart(c) == HostStart(c, HostTask(c, "end-meeting", "update"))

\* prisma.meeting.update returns (it throws for a socket bound to no
\* meeting); the Room of the map is closed and taken out of the map.
EndUpdate(s) ==
    LET t == tasks[s]
        h == Mem(rooms, roomObj, peerObj)
    IN  /\ t.ev = "end-meeting" /\ t.pc = "update"
        /\ tasks' = Done(s)
        /\ UNCHANGED <<participant, leftAt, sock, nreq, rateVars, last, hostVars, waiting>>
        /\ IF t.code = None
           THEN /\ SetMem(h, Held(tasks', timers))
                /\ Silent
                /\ UNCHANGED meeting
           ELSE /\ meeting' = [meeting EXCEPT ![t.code].status = "ENDED"]
                /\ Sent(<<ToGroup(sock, "meeting-ended", Group("meeting", t.code), t.code)>>)
                /\ SetMem(IF rooms[t.code] = 0 THEN h
                          ELSE [RoomClose(rooms[t.code], h, Held(tasks', timers))
                                    EXCEPT !.rm[t.code] = 0],
                          Held(tasks', timers))

\* ------------------------------------------------------ invite-participant
\* The role check returns and the handler asks for the meeting row of
\* socket.data.meetingId.
InviteStart(c) == HostStart(c, HostTask(c, "invite-participant", "meeting"))

\* prisma.meeting.findUnique returns (it throws for a socket bound to no
\* meeting).
InviteMeeting(s) ==
    LET t == tasks[s]
    IN  /\ t.ev = "invite-participant" /\ t.pc = "meeting"
        /\ tasks' = IF t.code = None THEN Done(s) ELSE [tasks EXCEPT ![s].pc = "create"]
        /\ SetMem(Mem(rooms, roomObj, peerObj), Held(tasks', timers))
        /\ Silent /\ UNCHANGED <<dbVars, sock, nreq, rateVars, last, hostVars, waiting>>

\* prisma.invitation.create returns.
InviteCreate(s) ==
    LET t == tasks[s]
    IN  /\ t.ev = "invite-participant" /\ t.pc = "create"
        /\ invitation' = [invitation EXCEPT ![t.code] = @ + 1]
        /\ tasks' = [tasks EXCEPT ![s].pc = "mail"]
        /\ Silent /\ UNCHANGED <<dbVars, memVars, sock, nreq, rateVars, last, breakout, question, upvote, cron, chat, pool, timers, waiting>>

\* transporter.sendMail returns.
InviteMail(s) ==
    LET t == tasks[s]
    IN  /\ t.ev = "invite-participant" /\ t.pc = "mail"
        /\ tasks' = Done(s)
        /\ Silent /\ UNCHANGED <<dbVars, memVars, sock, nreq, rateVars, last, hostVars, waiting>>

\* ----------------------------------------------------------- ask-question
HasFreeQuestion == \E q \in Qids : ~question[q].ex
FreshQuestion   == CHOOSE q \in Qids : ~question[q].ex

\* The request arrives on a socket bound to a meeting and the handler asks
\* for the new row.
AskStart(c) ==
    /\ CanStart(c)
    /\ HasFreeQuestion
    /\ nreq' = nreq + 1 /\ Unlimited
    /\ last' = Request("ask-question", c, sock[c].code # None)
    /\ tasks' = IF sock[c].code = None THEN tasks
                ELSE [tasks EXCEPT ![FreeSlot] =
                        [Task("ask-question", "create", c) EXCEPT !.mid = sock[c].code]]
    /\ Silent /\ UNCHANGED <<dbVars, memVars, sock, hostVars, waiting>>

\* prisma.question.create returns.
AskCreate(s) ==
    LET t == tasks[s]
    IN  /\ t.ev = "ask-question" /\ t.pc = "create"
        /\ HasFreeQuestion
        /\ question' = [question EXCEPT ![FreshQuestion] =
                [ex |-> TRUE, meetingId |-> t.mid, isAnswered |-> FALSE, isPinned |-> FALSE]]
        /\ tasks' = [tasks EXCEPT ![s].pc = "find", ![s].q = FreshQuestion]
        /\ Sent(<<ToGroup(sock, "new-question", Group("meeting", sock[t.c].code),
                          FreshQuestion)>>)
        /\ UNCHANGED <<dbVars, memVars, sock, nreq, rateVars, last, breakout, upvote, invitation, cron, chat, pool, timers, waiting>>

\* where: { meetingId }: a meetingId that is undefined is no filter.
OfMeeting(mid, m) == mid = None \/ m = mid

\* The active breakout rows of a meeting (findMany where meetingId,
\* isActive).
ActiveBreakouts(mid) ==
    {b \in BrIds : /\ breakout[b].ex
                   /\ breakout[b].isActive
                   /\ OfMeeting(mid, breakout[b].meetingId)}

\* prisma.breakoutRoom.findMany returns: the question goes to the group of
\* every active breakout of the meeting.
AskFind(s) ==
    LET t == tasks[s]
        E(b) == ToGroup(sock, "new-question", Group("breakout", b), t.q)
    IN  /\ t.ev = "ask-question" /\ t.pc = "find"
        /\ tasks' = Done(s)
        /\ Sent([k \in 1..Len(SetToSeq(ActiveBreakouts(t.mid))) |->
                    E(SetToSeq(ActiveBreakouts(t.mid))[k])])
        /\ UNCHANGED <<dbVars, memVars, sock, nreq, rateVars, last, hostVars, waiting>>

\* ------------------------------------------- mark-answered / pin-question
\* The role check (the same findFirst, inline) returns and the handler asks
\* for the question.
MarkStart(c, q) == HostStart(c, [HostTask(c, "mark-answered", "find") EXCEPT !.q = q])

PinStart(c, q) == HostStart(c, [HostTask(c, "pin-question", "find") EXCEPT !.q = q])

\* prisma.question.findUnique returns the question, or nothing.
QuestionFind(s) ==
    LET t == tasks[s]
    IN  /\ t.ev \in {"mark-answered", "pin-question"} /\ t.pc = "find"
        /\ tasks' = IF ~question[t.q].ex THEN Done(s)
                    ELSE [tasks EXCEPT ![s].pc = "update",
                                       ![s].flag = IF t.ev = "mark-answered"
                                                   THEN question[t.q].isAnswered
                                                   ELSE question[t.q].isPinned]
        /\ SetMem(Mem(rooms, roomObj, peerObj), Held(tasks', timers))
        /\ Silent /\ UNCHANGED <<dbVars, sock, nreq, rateVars, last, hostVars, waiting>>

\* prisma.question.update returns: the flag is the opposite of the one read.
QuestionUpdate(s) ==
    LET t == tasks[s]
    IN  /\ t.ev \in {"mark-answered", "pin-question"} /\ t.pc = "update"
        /\ question' = IF ~question[t.q].ex THEN question
                       ELSE IF t.ev = "mark-answered"
                       THEN [question EXCEPT ![t.q].isAnswered = ~t.flag]
                       ELSE [question EXCEPT ![t.q].isPinned = ~t.flag]
        /\ tasks' = Done(s)
        /\ SetMem(Mem(rooms, roomObj, peerObj), Held(tasks', timers))
        /\ Sent(IF ~question[t.q].ex THEN <<>>
                ELSE <<ToGroup(sock, IF t.ev = "mark-answered" THEN "question-answered"
                                     ELSE "question-pinned",
                               Group("meeting", sock[t.c].code), t.q)>>)
        /\ UNCHANGED <<dbVars, sock, nreq, rateVars, last, breakout, upvote, invitation, cron, chat, pool, timers, waiting>>

\* -------------------------------------------------------- upvote-question
\* The rows of user u for question q.
UpvotesOf(rows, q, u) == {r \in rows : r.q = q /\ r.u = u}

\* No unique index on the table: no insert is refused.
NoConstraint(rows, q, u) == FALSE

\* The unique index questionId_userId: an insert of a second row of the
\* pair is refused.
UniqueViolation(rows, q, u) == UpvotesOf(rows, q, u) # {}

\* The request arrives and prisma.upvote.findUnique is asked for the row of
\* (questionId, user.userId).
UpvoteStart(c, q) ==
    /\ CanStart(c)
    /\ nreq' = nreq + 1 /\ Unlimited
    /\ last' = Request("upvote-question", c, TRUE)
    /\ tasks' = [tasks EXCEPT ![FreeSlot] =
                    [Task("upvote-question", "find", c) EXCEPT
                        !.q = q, !.uid = UserOf(c), !.id = nreq + 1]]
    /\ Silent /\ UNCHANGED <<dbVars, memVars, sock, hostVars, waiting>>

\* findUnique returns the row (tr: its id) or null (0), and the handler asks
\* for the delete of the row or for the create of a new one.
UpvoteFind(s) ==
    LET t == tasks[s]
        found == UpvotesOf(upvote, t.q, t.uid)
    IN  /\ t.ev = "upvote-question" /\ t.pc = "find"
        /\ \E x \in {r.id : r \in found} \cup {y \in {0} : found = {}} :
              tasks' = [tasks EXCEPT ![s] = [t EXCEPT !.pc = "toggle", !.tr = x]]
        /\ Silent /\ UNCHANGED <<dbVars, memVars, sock, nreq, rateVars, last, hostVars, waiting>>

\* The table after the delete or the create of the task; failed: the
\* operation throws, and the table is as it was.
ToggleFails(t, rows) ==
    IF t.tr # 0 THEN \A r \in rows : r.id # t.tr
    ELSE UniqueViolation(rows, t.q, t.uid)

Toggle(t, rows) ==
    IF ToggleFails(t, rows) THEN rows
    ELSE IF t.tr # 0 THEN {r \in rows : r.id # t.tr}
    ELSE rows \cup {[id |-> t.id, q |-> t.q, u |-> t.uid]}

\* prisma.upvote.delete or prisma.upvote.create returns, and the handler
\* asks for the count; when it throws the handler ends in its catch.
UpvoteToggle(s) ==
    LET t == tasks[s]
    IN  /\ t.ev = "upvote-question" /\ t.pc = "toggle"
        /\ upvote' = Toggle(t, upvote)
        /\ tasks' = IF ToggleFails(t, upvote) THEN Done(s)
                    ELSE [tasks EXCEPT ![s].pc = "count"]
        /\ Silent
        /\ UNCHANGED <<dbVars, memVars, sock, nreq, rateVars, last, breakout, question,
                       invitation, cron, chat, pool, timers, waiting>>

\* prisma.upvote.count returns: 'question-upvoted' goes to the meeting
\* group, and the handler asks for the question.
UpvoteCount(s) ==
    LET t == tasks[s]
    IN  /\ t.ev = "upvote-question" /\ t.pc = "count"
        /\ tasks' = [tasks EXCEPT ![s].pc = "question"]
        /\ Sent(<<ToGroup(sock, "question-upvoted", Group("meeting", sock[t.c].code), t.q)>>)
        /\ UNCHANGED <<dbVars, memVars, sock, nreq, rateVars, last, hostVars, waiting>>

\* prisma.question.findUnique returns: with a question, the handler asks
\* for the active breakouts of its meeting.
UpvoteQuestion(s) ==
    LET t == tasks[s]
    IN  /\ t.ev = "upvote-question" /\ t.pc = "question"
        /\ tasks' = IF ~question[t.q].ex THEN Done(s)
                    ELSE [tasks EXCEPT ![s].pc = "breakouts",
                                       ![s].mid = question[t.q].meetingId]
        /\ Silent /\ UNCHANGED <<dbVars, memVars, sock, nreq, rateVars, last, hostVars, waiting>>

\* prisma.breakoutRoom.findMany returns: 'question-upvoted' goes to the
\* group of each active breakout.
UpvoteBreakouts(s) ==
    LET t == tasks[s]
        b == SetToSeq(ActiveBreakouts(t.mid))
    IN  /\ t.ev = "upvote-question" /\ t.pc = "breakouts"
        /\ tasks' = Done(s)
        /\ Sent([k \in 1..Len(b) |->
                    ToGroup(sock, "question-upvoted", Group("breakout", b[k]), t.q)])
        /\ UNCHANGED <<dbVars, memVars, sock, nreq, rateVars, last, hostVars, waiting>>

\* -------------------------------------------------------- create-breakout
\* The data of a request that passes createBreakoutSchema: the
\* participantIds of each room of data.rooms, and whether data.duration is
\* set.
BreakoutConfigs == {<< <<>> >>} \cup {<< <<p>> >> : p \in Pids}

\* The data of a request with two rooms that list the same participantId;
\* it passes createBreakoutSchema as well.
TwiceConfigs == {<< <<p>>, <<p>> >> : p \in Pids}

HasFreeBreakout == \E b \in BrIds : ~breakout[b].ex
FreshBreakout   == CHOOSE b \in BrIds : ~breakout[b].ex

\* The role check returns, the Room of the map is read and the handler asks
\* for the row of the first room of data.rooms.
CreateStart(c, cfgs, dur) ==
    HostRoomStart(c, [RoomTask(c, "create-breakout", "row") EXCEPT
                         !.cfgs = cfgs, !.dur = dur, !.mid = sock[c].code])

\* prisma.breakoutRoom.create returns the new row; the handler asks for the
\* breakout router.
CreateRow(s) ==
    LET t == tasks[s]
        b == FreshBreakout
    IN  /\ t.ev = "create-breakout" /\ t.pc = "row"
        /\ HasFreeBreakout
        /\ breakout' = [breakout EXCEPT ![b] =
                           [ex |-> TRUE, meetingId |-> t.mid, isActive |-> TRUE]]
        /\ tasks' = [tasks EXCEPT ![s] =
                        [t EXCEPT !.pc = "router", !.br = b, !.ids = Head(t.cfgs)]]
        /\ Silent /\ UNCHANGED <<dbVars, memVars, sock, nreq, rateVars, last, question, upvote, invitation, cron, chat, pool, timers, waiting>>

\* The loop "Move peers in the media server" over the (breakout,
\* participantId) pairs cr, from pair k on.  pick[k] is the first Peer of
\* the main scope with the participant of pair k (the order of the map is
\* not kept in the model); st holds the memory and the sockets so far.
RECURSIVE MovePeers(_, _, _, _, _, _, _)
MovePeers(i, code, cr, pick, k, st, hd) ==
    IF k > Len(cr) THEN st
    ELSE LET b     == cr[k][1]
             cands == PeersOf(st.h.ro[i].peers, st.h.po, cr[k][2])
             x     == pick[k]
         IN  IF cands = {} THEN MovePeers(i, code, cr, pick, k + 1, st, hd)
             ELSE IF x \notin cands THEN [st EXCEPT !.ok = FALSE]
             ELSE MovePeers(i, code, cr, pick, k + 1,
                    [st EXCEPT
                        !.h  = MovePeerToBreakout(i, st.h, x, b, hd),
                        !.sk = IF st.sk[x].st = "open"
                               THEN SockJoin(SockLeave(st.sk, x, Group("meeting", code)),
                                             x, Group("breakout", b))
                               ELSE st.sk],
                    hd)

\* The end of the handler: the peers of the created rooms are moved and the
\* auto-close timer is set when data.duration is.
CreateMove(s, t, cr, h) ==
    /\ tasks' = Done(s)
    /\ timers' = IF t.dur
                 THEN timers \cup {[c |-> t.c, room |-> t.room, code |-> t.code]}
                 ELSE timers
    /\ \E pick \in [1..Len(cr) -> Conns] :
          LET st == MovePeers(t.room, t.code, cr, pick, 1,
                              [h |-> h, sk |-> sock, ok |-> TRUE],
                              Held(tasks', timers'))
          IN  /\ st.ok
              /\ SetMem(st.h, Held(tasks', timers'))
              /\ sock' = st.sk
              /\ Sent(<<ToGroup(sock', "breakout-created",
                                Group("meeting", t.code), t.code)>>)

\* The handler goes on after the router or an assignment: the next
\* participantId of the room, the next room of data.rooms, or the end.
CreateGoOn(s, t, h) ==
    LET cr   == t.created \o [k \in 1..Len(Head(t.cfgs)) |-> <<t.br, Head(t.cfgs)[k]>>]
        rest == Tail(t.cfgs)
    IN  IF t.ids # <<>>
        THEN /\ tasks' = [tasks EXCEPT ![s] = [t EXCEPT !.pc = "assign"]]
             /\ SetMem(h, Held(tasks', timers))
             /\ Silent
             /\ UNCHANGED <<sock, timers>>
        ELSE IF rest # <<>>
        THEN /\ tasks' = [tasks EXCEPT ![s] =
                             [t EXCEPT !.pc = "row", !.created = cr, !.cfgs = rest,
                                       !.mid = sock[t.c].code]]
             /\ SetMem(h, Held(tasks', timers))
             /\ Silent
             /\ UNCHANGED <<sock, timers>>
        ELSE CreateMove(s, t, cr, h)

\* room.createBreakoutRouter returns: the Room has the breakout's router and
\* an empty peer map for it.
CreateRouter(s) ==
    LET t == tasks[s]
        h == Mem(rooms, roomObj, peerObj)
    IN  /\ t.ev = "create-breakout" /\ t.pc = "router"
        /\ CreateGoOn(s, t, [h EXCEPT !.ro[t.room].br[t.br] =
                                         [has |-> TRUE, peers |-> NoPeers]])
        /\ UNCHANGED <<dbVars, nreq, rateVars, last, breakout, question, upvote, invitation, cron, chat, pool, waiting>>

\* prisma.participant.update returns for the first participantId left; it
\* throws, which ends the handler, when there is no such row.
CreateAssign(s) ==
    LET t   == tasks[s]
        pid == Head(t.ids)
        h   == Mem(rooms, roomObj, peerObj)
    IN  /\ t.ev = "create-breakout" /\ t.pc = "assign"
        /\ UNCHANGED <<meeting, nreq, rateVars, last, breakout, question, upvote, invitation, cron, chat, pool, waiting>>
        /\ IF ~participant[pid].ex
           THEN /\ tasks' = Done(s)
                /\ SetMem(h, Held(tasks', timers))
                /\ Silent
                /\ UNCHANGED <<participant, leftAt, sock, timers>>
           ELSE /\ leftAt' = leftAt
                /\ participant' = [participant EXCEPT
                                      ![pid].status = "IN_BREAKOUT", ![pid].brId = t.br]
                /\ CreateGoOn(s, [t EXCEPT !.ids = Tail(t.ids)], h)

\* ------------------------------------------------------- close-breakouts
\* The role check returns, the Room of the map is read and
\* closeBreakoutRooms asks for the update of the breakout rows.
CloseStart(c) ==
    HostRoomStart(c, [RoomTask(c, "close-breakouts", "rows") EXCEPT !.mid = sock[c].code])

\* The auto-close timer of a create-breakout fires: closeBreakoutRooms with
\* the socket, the Room and the code of that handler.
TimerFire(tm) ==
    /\ tm \in timers
    /\ \E s \in Slots : tasks[s] = Idle
    /\ timers' = timers \ {tm}
    /\ tasks' = [tasks EXCEPT ![FreeSlot] =
                    [Task("close-breakouts", "rows", tm.c) EXCEPT
                        !.code = tm.code, !.room = tm.room, !.mid = sock[tm.c].code,
                        !.kind = "timer"]]
    /\ Silent /\ UNCHANGED <<dbVars, memVars, sock, nreq, rateVars, last, breakout, question, upvote, invitation, cron, chat, pool, waiting>>

\* prisma.breakoutRoom.updateMany returns: the active rows of the meeting
\* are inactive.
CloseRows(s) ==
    LET t == tasks[s]
    IN  /\ t.ev = "close-breakouts" /\ t.pc = "rows"
        /\ breakout' = [b \in BrIds |->
                          IF /\ breakout[b].ex
                             /\ breakout[b].isActive
                             /\ OfMeeting(t.mid, breakout[b].meetingId)
                          THEN [breakout[b] EXCEPT !.isActive = FALSE]
                          ELSE breakout[b]]
        /\ tasks' = [tasks EXCEPT ![s] = [t EXCEPT !.pc = "parts", !.mid = sock[t.c].code]]
        /\ Silent /\ UNCHANGED <<dbVars, memVars, sock, nreq, rateVars, last, question, upvote, invitation, cron, chat, pool, timers, waiting>>

\* The socket x after the loop over movedSocketIds: it leaves the group of
\* every breakout the Room had and joins meeting:<code>.
BackToMain(sk, x, r, code) ==
    [sk EXCEPT ![x].groups =
        (@ \ {Group("breakout", b) : b \in {y \in BrIds : r.br[y].has}})
            \cup {Group("meeting", code)}]

\* prisma.participant.updateMany returns: the IN_BREAKOUT participants of
\* the meeting are IN_MEETING; Room.closeAllBreakouts, and the sockets of
\* the peers it moved go back to the meeting group.
CloseParts(s) ==
    LET t     == tasks[s]
        h     == Mem(rooms, roomObj, peerObj)
        r     == roomObj[t.room]
        moved == {x \in MovedSocketIds(r) : sock[x].st = "open"}
    IN  /\ t.ev = "close-breakouts" /\ t.pc = "parts"
        /\ leftAt' = leftAt
        /\ participant' = [p \in Pids |->
                             IF /\ participant[p].ex
                                /\ participant[p].status = "IN_BREAKOUT"
                                /\ OfMeeting(t.mid, p[2])
                             THEN [participant[p] EXCEPT !.status = "IN_MEETING",
                                                         !.brId = None]
                             ELSE participant[p]]
        /\ tasks' = Done(s)
        /\ SetMem(CloseAllBreakouts(t.room, h, Held(tasks', timers)),
                  Held(tasks', timers))
        /\ sock' = [x \in Conns |->
                      IF x \in moved THEN BackToMain(sock, x, r, t.code)[x] ELSE sock[x]]
        /\ Sent(<<ToGroup(sock', "breakout-closed", Group("meeting", t.code), t.code)>>)
        /\ UNCHANGED <<meeting, nreq, rateVars, last, hostVars, waiting>>

\* -------------------------------------------------- broadcast-to-breakouts
BroadcastStart(c) ==
    HostRoomStart(c, [RoomTask(c, "broadcast-to-breakouts", "find") EXCEPT
                         !.mid = sock[c].code])

\* prisma.breakoutRoom.findMany returns and the message is sent.
BroadcastFind(s) ==
    LET t == tasks[s]
        q == SetToSeq(ActiveBreakouts(t.mid))
    IN  /\ t.ev = "broadcast-to-breakouts" /\ t.pc = "find"
        /\ tasks' = Done(s)
        /\ SetMem(Mem(rooms, roomObj, peerObj), Held(tasks', timers))
        /\ Sent([k \in 1..Len(q) |->
                    ToGroup(sock, "breakout-broadcast", Group("breakout", q[k]), q[k])])
        /\ UNCHANGED <<dbVars, sock, nreq, rateVars, last, hostVars, waiting>>

\* ------------------------------------------------------- create-transport
\* A request of the media signaling is received.
CanStartMedia(c) ==
    /\ sock[c].st = "open"
    /\ nreq < MaxMedia
    /\ \E s \in Slots : tasks[s] = Idle

\* rooms.get(socket.data.meetingCode) and room.getPeer(socket.id).
RoomOf(c) == IF sock[c].code = None THEN 0 ELSE rooms[sock[c].code]

PeerOf(c) == IF RoomOf(c) = 0 THEN 0 ELSE GetPeer(roomObj[RoomOf(c)], c)

\* A media handler of connection c that holds its Room and its Peer.  The
\* transport or the producer it creates has the number of the request as
\* its id.
MediaTask(c, ev, pc) ==
    [Task(ev, pc, c) EXCEPT !.room = RoomOf(c), !.peer = PeerOf(c), !.id = nreq + 1]

\* Room.createTransport: routerOverride || this.router.
ActiveRouter(override) == IF override # None THEN override ELSE "main"

\* The request arrives; with a Room and a Peer, Room.createTransport asks
\* the router for a transport; the handler passes no routerOverride.
TransportStart(c, dir) ==
    /\ CanStartMedia(c)
    /\ nreq' = nreq + 1 /\ Unlimited
    /\ last' = Request("create-transport", c, PeerOf(c) # 0)
    /\ tasks' = IF PeerOf(c) = 0 THEN tasks
                ELSE [tasks EXCEPT ![FreeSlot] =
                        [MediaTask(c, "create-transport", "create") EXCEPT !.kind = dir]]
    /\ Silent /\ UNCHANGED <<dbVars, memVars, sock, hostVars, waiting>>

\* router.createWebRtcTransport returns; it throws when the router is
\* closed.
TransportCreate(s) ==
    LET t == tasks[s]
    IN  /\ t.ev = "create-transport" /\ t.pc = "create"
        /\ tasks' = IF roomObj[t.room].closed THEN Done(s)
                    ELSE [tasks EXCEPT ![s].pc = "bitrate"]
        /\ SetMem(Mem(rooms, roomObj, peerObj), Held(tasks', timers))
        /\ Silent /\ UNCHANGED <<dbVars, sock, nreq, rateVars, last, hostVars, waiting>>

\* transport.setMaxIncomingBitrate returns and the transport is stored on
\* the Peer, in place of the one it held.
TransportBitrate(s) ==
    LET t == tasks[s]
        h == Mem(rooms, roomObj, peerObj)
    IN  /\ t.ev = "create-transport" /\ t.pc = "bitrate"
        /\ tasks' = Done(s)
        /\ SetMem(IF roomObj[t.room].closed THEN h
                  ELSE IF t.kind = "send"
                  THEN [h EXCEPT !.po[t.peer].send = t.id,
                                 !.po[t.peer].sendOn = ActiveRouter(None)]
                  ELSE [h EXCEPT !.po[t.peer].recv = t.id,
                                 !.po[t.peer].recvOn = ActiveRouter(None)],
                  Held(tasks', timers))
        /\ Silent /\ UNCHANGED <<dbVars, sock, nreq, rateVars, last, hostVars, waiting>>

\* ---------------------------------------------------------------- produce
\* The open screen producers of the Peers of a peer map, by connection.
ScreenProducers(peers, po) ==
    {e \in Conns \X (1..(MaxMedia + 1)) :
        /\ peers[e[1]] # 0
        /\ [id |-> e[2], type |-> "screen"] \in po[peers[e[1]]].prods}

\* The check of the produce handler: another Peer of the main scope has an
\* open screen producer.
AlreadySharing(c) ==
    \E e \in ScreenProducers(roomObj[RoomOf(c)].peers, peerObj) : e[1] # c

\* The request arrives with appData.type and a transportId that matches the
\* Peer's send transport or not; past the checks, createProducer asks the
\* transport for the producer.
ProduceStart(c, type, match) ==
    LET go == /\ PeerOf(c) # 0
              /\ ~(type = "screen" /\ AlreadySharing(c))
              /\ peerObj[PeerOf(c)].send # 0
              /\ match
    IN  /\ CanStartMedia(c)
        /\ nreq' = nreq + 1 /\ Unlimited
        /\ last' = Request("produce", c, go)
        /\ tasks' = IF ~go THEN tasks
                    ELSE [tasks EXCEPT ![FreeSlot] =
                            [MediaTask(c, "produce", "produce") EXCEPT
                                !.kind = type, !.tr = peerObj[PeerOf(c)].send]]
        /\ Silent /\ UNCHANGED <<dbVars, memVars, sock, hostVars, waiting>>

\* transport.produce returns and the producer is added to the Peer; it
\* throws when the transport is closed.
ProduceDone(s) ==
    LET t == tasks[s]
        h == Mem(rooms, roomObj, peerObj)
        ok == ~(roomObj[t.room].closed \/ t.tr \in peerObj[t.peer].dead)
    IN  /\ t.ev = "produce" /\ t.pc = "produce"
        /\ tasks' = Done(s)
        /\ Sent(IF ok
                THEN <<ToOthers(sock, t.c, "new-producer",
                                Group("meeting", sock[t.c].code), t.id)>>
                ELSE <<>>)
        /\ SetMem(IF ~ok THEN h
                  ELSE [h EXCEPT !.po[t.peer].prods =
                                    @ \cup {[id |-> t.id, type |-> t.kind]}],
                  Held(tasks', timers))
        /\ UNCHANGED <<dbVars, sock, nreq, rateVars, last, hostVars, waiting>>

\* --------------------------------------------------------- close-producer
\* The producer of the Peer with the id, if any, is closed and removed.
CloseProducer(c, id) ==
    LET has == PeerOf(c) # 0 /\ \E pr \in peerObj[PeerOf(c)].prods : pr.id = id
    IN  /\ CanStartMedia(c)
        /\ nreq' = nreq + 1 /\ Unlimited
        /\ last' = Request("close-producer", c, has)
        /\ peerObj' = IF ~has THEN peerObj
                      ELSE DropConsumers([peerObj EXCEPT ![PeerOf(c)].prods =
                                             {pr \in @ : pr.id # id}], {id})
        /\ Sent(IF has
                THEN <<ToOthers(sock, c, "producer-closed",
                                Group("meeting", sock[c].code), id)>>
                ELSE <<>>)
        /\ UNCHANGED <<dbVars, rooms, shut, roomObj, sock, tasks, hostVars, waiting>>

\* ---------------------------------------------------------------- consume
\* The loop over room.getPeers(): the Peers of the main scope that hold
\* producer id.
ProducerPeers(c, id) ==
    {p \in {roomObj[RoomOf(c)].peers[d] : d \in Conns} \ {0} :
        \E pr \in peerObj[p].prods : pr.id = id}

\* The request arrives with a producerId and rtpCapabilities the router can
\* consume the producer with or not; past the checks, createConsumer asks
\* the Peer's recv transport for the consumer.
ConsumeStart(c, id, can) ==
    LET go == /\ PeerOf(c) # 0
              /\ ProducerPeers(c, id) # {}
              /\ can
              /\ peerObj[PeerOf(c)].recv # 0
    IN  /\ CanStartMedia(c)
        /\ nreq' = nreq + 1 /\ Unlimited
        /\ last' = Request("consume", c, go)
        /\ tasks' = IF ~go THEN tasks
                    ELSE [tasks EXCEPT ![FreeSlot] =
                            [MediaTask(c, "consume", "consume") EXCEPT
                                !.prod = id, !.tr = peerObj[PeerOf(c)].recv]]
        /\ Silent /\ UNCHANGED <<dbVars, memVars, sock, hostVars, waiting>>

\* transport.consume returns and the consumer is added to the Peer; it
\* throws when the transport or the producer is closed.
ConsumeDone(s) ==
    LET t == tasks[s]
        h == Mem(rooms, roomObj, peerObj)
        ok == /\ ~roomObj[t.room].closed
              /\ t.tr \notin peerObj[t.peer].dead
              /\ \E p \in PeerIds : \E pr \in peerObj[p].prods : pr.id = t.prod
    IN  /\ t.ev = "consume" /\ t.pc = "consume"
        /\ tasks' = Done(s)
        /\ SetMem(IF ~ok THEN h
                  ELSE [h EXCEPT !.po[t.peer].cons =
                                    @ \cup {[id |-> t.id, prod |-> t.prod]}],
                  Held(tasks', timers))
        /\ Silent /\ UNCHANGED <<dbVars, sock, nreq, rateVars, last, hostVars, waiting>>

\* ------------------------------------------------------------------ chat
\* The number of requests of a run of the chat.
MaxChat == 104

\* take: 100
TakeLimit == 100

\* The request arrives with a content that passes messageSchema or not, and
\* the handler asks for the new row.
ChatStart(c, valid) ==
    LET go == valid /\ sock[c].code # None
    IN  /\ sock[c].st = "open" /\ nreq < MaxChat
        /\ nreq' = nreq + 1 /\ Unlimited
        /\ last' = Request("send-chat", c, go)
        /\ tasks' = IF ~go THEN tasks
                    ELSE [tasks EXCEPT ![FreeSlot] =
                            [Task("send-chat", "create", c) EXCEPT !.mid = sock[c].code]]
        /\ Silent /\ UNCHANGED <<dbVars, memVars, sock, hostVars, waiting>>

\* socketRooms.find(r => r.startsWith('breakout:')), or the meeting group.
ChatGroup(c) ==
    IF \E g \in sock[c].groups : g[1] = "breakout"
    THEN CHOOSE g \in sock[c].groups : g[1] = "breakout"
    ELSE Group("meeting", sock[c].code)

\* prisma.chatMessage.create returns: the row is in the table, with a
\* createdAt later than that of every row before it, and 'new-chat' goes to
\* the sender's breakout group or to the meeting group.
ChatCreate(s) ==
    LET t   == tasks[s]
        row == [meetingId |-> t.mid, createdAt |-> Len(chat.rows) + 1,
                scope |-> ChatGroup(t.c)]
    IN  /\ t.ev = "send-chat" /\ t.pc = "create"
        /\ chat' = [chat EXCEPT !.rows = Append(@, row)]
        /\ tasks' = Done(s)
        /\ Sent(<<ToGroup(sock, "new-chat", ChatGroup(t.c), row.createdAt)>>)
        /\ UNCHANGED <<dbVars, memVars, sock, nreq, rateVars, last, breakout, question,
                       upvote, invitation, cron, pool, timers, waiting>>

\* where: { meetingId }, orderBy: { createdAt: 'asc' }: the rows of the
\* meeting, the oldest first.
Ascending(rows, mid) == SelectSeq(rows, LAMBDA x : x.meetingId = mid)

\* take: n on an ordered result: its first n rows.
Take(q, n) == SubSeq(q, 1, IF Len(q) < n THEN Len(q) ELSE n)

\* The last n rows of an ordered result.
TakeLast(q, n) == SubSeq(q, IF Len(q) < n THEN 1 ELSE Len(q) - n + 1, Len(q))

\* The request arrives: a socket without socket.data.meetingId is answered
\* { messages: [] }, any other asks for the rows.
HistoryStart(c) ==
    /\ sock[c].st = "open" /\ nreq < MaxChat
    /\ nreq' = nreq + 1 /\ Unlimited
    /\ last' = Request("get-chat-history", c, sock[c].code # None)
    /\ IF sock[c].code = None
       THEN /\ chat' = [chat EXCEPT !.hist = <<>>, !.asker = c]
            /\ UNCHANGED tasks
       ELSE /\ chat' = chat
            /\ tasks' = [tasks EXCEPT ![FreeSlot] =
                            [Task("get-chat-history", "find", c) EXCEPT !.mid = sock[c].code]]
    /\ Silent
    /\ UNCHANGED <<dbVars, memVars, sock, breakout, question, upvote, invitation, cron,
                   pool, timers, waiting>>

\* prisma.chatMessage.findMany returns and the callback gets the messages.
HistoryFind(s) ==
    LET t == tasks[s]
    IN  /\ t.ev = "get-chat-history" /\ t.pc = "find"
        /\ chat' = [chat EXCEPT !.hist = Take(Ascending(chat.rows, t.mid), TakeLimit),
                                !.asker = t.c]
        /\ tasks' = Done(s)
        /\ Silent
        /\ UNCHANGED <<dbVars, memVars, sock, nreq, rateVars, last, breakout, question,
                       upvote, invitation, cron, pool, timers, waiting>>

\* ------------------------------------------------------ ReminderScheduler
\* 30 * 60 * 1000: the age, in milliseconds, at which the cleanup takes a
\* meeting for stale.
StaleMs == 30 * 60 * 1000

\* More than thirty minutes pass, at most MaxWaits times in a run.
MaxWaits == 1

Later ==
    /\ now < MaxWaits * StaleMs
    /\ now' = now + StaleMs + 1
    /\ Silent
    /\ UNCHANGED <<dbVars, memVars, sock, tasks, nreq, counters, last, hostVars, waiting>>

\* The steps of the scheduler leave the server's memory, the sockets and
\* the requests alone.
CronFrame == UNCHANGED <<memVars, sock, tasks, nreq, rateVars, last, waiting, timers, pool>>

\* cron.schedule('* * * * *', ...): the job fires, and processReminders
\* asks for the due reminders.
CronTick ==
    /\ cron.pc = "idle"
    /\ cron' = [cron EXCEPT !.pc = "due"]
    /\ Silent /\ CronFrame
    /\ UNCHANGED <<dbVars, breakout, question, upvote, invitation, chat>>

\* include: { meeting: { include: { participants: { where: { status:
\* { not: 'REMOVED' } } } } } }
Included(r) ==
    SetToSeq({p \in Pids : /\ p[2] = ReminderMeeting(r)
                           /\ participant[p].ex
                           /\ participant[p].status # "REMOVED"})

\* where: { sent: false, triggerAt: { lte: now } }
DueReminders ==
    LET q == SetToSeq({r \in Rids : cron.rem[r].ex /\ ~cron.rem[r].sent})
    IN  [k \in 1..Len(q) |-> [r |-> q[k], parts |-> Included(q[k])]]

\* The loop of processReminders at the reminders due: with none left,
\* cleanupStaleInstantMeetings asks for the stale meetings; an EMAIL
\* reminder with participants goes to its first sendMail; any other goes to
\* the update that marks it sent.
AtReminder(cr, due) ==
    IF due = <<>>
    THEN [cr EXCEPT !.pc = "stale", !.due = <<>>, !.todo = <<>>, !.failed = FALSE]
    ELSE IF ReminderType(Head(due).r) = "EMAIL" /\ Head(due).parts # <<>>
    THEN [cr EXCEPT !.pc = "mail", !.due = due, !.todo = Head(due).parts,
                    !.failed = FALSE]
    ELSE [cr EXCEPT !.pc = "mark", !.due = due, !.todo = <<>>, !.failed = FALSE]

\* sendInAppReminder: io.emit('reminder', ...) once for each participant,
\* to every socket.
InAppEvents(e) ==
    IF ReminderType(e.r) # "IN_APP" THEN <<>>
    ELSE [k \in 1..Len(e.parts) |->
            [ev |-> "reminder", group |-> Group("all", None),
             to |-> {c \in Conns : sock[c].st = "open"}, id |-> e.parts[k]]]

\* prisma.reminder.findMany returns.
CronDue ==
    /\ cron.pc = "due"
    /\ cron' = AtReminder(cron, DueReminders)
    /\ Sent(IF DueReminders = <<>> THEN <<>> ELSE InAppEvents(Head(DueReminders)))
    /\ CronFrame
    /\ UNCHANGED <<dbVars, breakout, question, upvote, invitation, chat>>

\* transporter.sendMail returns or throws; sendEmailReminder catches what
\* it throws, logs it and goes on with the next participant.
CronMail(ok) ==
    /\ cron.pc = "mail"
    /\ cron' = [cron EXCEPT !.todo = Tail(@),
                            !.failed = @ \/ ~ok,
                            !.pc = IF Len(cron.todo) = 1 THEN "mark" ELSE "mail"]
    /\ Silent /\ CronFrame
    /\ UNCHANGED <<dbVars, breakout, question, upvote, invitation, chat>>

\* prisma.reminder.update({ data: { sent: true } }) returns, or throws for
\* a row that has been deleted, and the loop goes on.
CronMark ==
    LET r   == Head(cron.due).r
        cr  == IF cron.rem[r].ex THEN [cron EXCEPT !.rem[r].sent = TRUE] ELSE cron
        due == Tail(cron.due)
    IN  /\ cron.pc = "mark"
        /\ cron' = AtReminder(cr, due)
        /\ Sent(IF due = <<>> THEN <<>> ELSE InAppEvents(Head(due)))
        /\ CronFrame
        /\ UNCHANGED <<dbVars, breakout, question, upvote, invitation, chat>>

\* The where of cleanupStaleInstantMeetings; every meeting of the model is
\* an instant meeting (scheduledAt: null) created at time 0.
StaleMeetings ==
    {m \in Meetings :
        /\ meeting[m].ex
        /\ meeting[m].status # "ENDED"
        /\ \/ meeting[m].status = "SCHEDULED" /\ 0 <= now - StaleMs
           \/ /\ meeting[m].status = "LIVE"
              /\ ~\E p \in Pids :
                    /\ p[2] = m /\ participant[p].ex
                    /\ leftAt[p].null \/ leftAt[p].t > now - StaleMs}

\* prisma.meeting.findMany returns the stale meetings.
CronStale ==
    /\ cron.pc = "stale"
    /\ cron' = [cron EXCEPT !.stale = StaleMeetings,
                            !.pc = IF StaleMeetings = {} THEN "idle" ELSE "delete"]
    /\ Silent /\ CronFrame
    /\ UNCHANGED <<dbVars, breakout, question, upvote, invitation, chat>>

\* prisma.meeting.deleteMany returns: the rows of the meetings and, by the
\* cascade, their child rows are gone.
CronDelete ==
    LET S == cron.stale
    IN  /\ cron.pc = "delete"
        /\ meeting' = [m \in Meetings |->
                          IF m \in S THEN [meeting[m] EXCEPT !.ex = FALSE] ELSE meeting[m]]
        /\ participant' = [p \in Pids |-> IF p[2] \in S THEN NoRow ELSE participant[p]]
        /\ leftAt' = [p \in Pids |-> IF p[2] \in S THEN NullAt ELSE leftAt[p]]
        /\ breakout' = [b \in BrIds |->
                           IF breakout[b].meetingId \in S THEN NoBreakoutRow ELSE breakout[b]]
        /\ question' = [q \in Qids |->
                           IF question[q].meetingId \in S THEN NoQuestion ELSE question[q]]
        /\ upvote' = {r \in upvote : question[r.q].meetingId \notin S}
        /\ invitation' = [m \in Meetings |-> IF m \in S THEN 0 ELSE invitation[m]]
        /\ chat' = [chat EXCEPT !.rows = SelectSeq(@, LAMBDA x : x.meetingId \notin S)]
        /\ cron' = [cron EXCEPT !.pc = "idle", !.stale = {},
                                !.rem = [r \in Rids |->
                                           IF ReminderMeeting(r) \in S
                                           THEN [ex |-> FALSE, sent |-> FALSE]
                                           ELSE cron.rem[r]]]
        /\ Silent /\ CronFrame

\* ------------------------------------------------- requests under the limiter
\* The number of steps of the clock in a run, and the length of one.
MaxTicks == 2
TickMs   == 500

\* Time passes.
Tick ==
    /\ now < MaxTicks * TickMs
    /\ now' = now + TickMs
    /\ Silent
    /\ UNCHANGED <<dbVars, memVars, sock, tasks, nreq, counters, last, hostVars, waiting>>

\* if (!checkRateLimit(socket, eventName)) return;
Dropped ==
    Silent /\ UNCHANGED <<dbVars, memVars, sock, tasks, nreq, last, hostVars, waiting>>

\* A media or chat handler on a socket that has joined no meeting: it finds
\* no Room, or no socket.data.meetingId, and returns.
Unbound(c, ev) ==
    /\ sock[c].code = None
    /\ last' = Request(ev, c, FALSE)
    /\ Silent /\ UNCHANGED <<dbVars, memVars, sock, tasks, nreq, hostVars, waiting>>

\* The handler of an event the limiter has allowed.
Handle(c, ev, pid) ==
    IF ev = "lobby-reject"
    THEN HostCheck(c, [HostTask(c, "lobby-reject", "update") EXCEPT !.pid = pid])
    ELSE Unbound(c, ev)

\* A request arrives: checkRateLimit counts it, and the handler goes on or
\* returns.  A bucket that has denied an event gets no further event.
Arrive(c, ev, pid) ==
    LET cat == EVENT_CATEGORIES(ev)
        k   == counters[c][cat]
    IN  /\ sock[c].st = "open"
        /\ Expired(k, now) \/ ~Exceeds(k.count, LIMITS[cat].maxEvents)
        /\ counters' = [counters EXCEPT ![c][cat] = Counted(k, cat, now)]
        /\ now' = now
        /\ IF CheckRateLimit(c, ev) THEN Handle(c, ev, pid) ELSE Dropped

\* ------------------------------------------------------------------- Next
\* No handler is suspended.
Quiet == \A s \in Slots : tasks[s] = Idle

\* The connection has joined a meeting: its socket.data names a participant.
Joined(c) == sock[c].pid # NoPid

\* One request at a time: the next one arrives when the handler of the one
\* before has ended, and the clients send the host controls on connections
\* that have joined.  A suspended handler resumes when its await returns.
Next ==
    \/ \E c \in Conns, m \in Meetings : Quiet /\ JoinStart(c, m)
    \/ \E c \in Conns : Quiet /\ Disconnect(c)
    \/ \E c \in Conns, p \in Pids : Quiet /\ Joined(c) /\ AdmitStart(c, p)
    \/ \E c \in Conns, p \in Pids : Quiet /\ Joined(c) /\ RejectStart(c, p)
    \/ \E c \in Conns, p \in Pids : Quiet /\ Joined(c) /\ MoveStart(c, p)
    \/ \E c \in Conns, p \in Pids : Quiet /\ Joined(c) /\ TransferStart(c, p)
    \/ \E c \in Conns, p \in Pids : Quiet /\ Joined(c) /\ KickStart(c, p)
    \/ \E c \in Conns : Quiet /\ Joined(c) /\ EndStart(c)
    \/ \E s \in Slots : JoinExisting(s)
    \/ \E s \in Slots : JoinUpsert(s)
    \/ \E s \in Slots : JoinRouter(s)
    \/ \E s \in Slots : JoinLive(s)
    \/ \E s \in Slots : AdmitUpdate(s)
    \/ \E s \in Slots : RejectUpdate(s)
    \/ \E s \in Slots : MoveTarget(s)
    \/ \E s \in Slots : MoveUpdate(s)
    \/ \E s \in Slots : TransferTarget(s)
    \/ \E s \in Slots : TransferTxn(s)
    \/ \E s \in Slots : KickTarget(s)
    \/ \E s \in Slots : KickUpdate(s)
    \/ \E s \in Slots : EndUpdate(s)

Spec == Init /\ [][Next]_vars

\* The host controls overlap: a control arrives while another handler is
\* suspended.  The join requests still arrive one at a time.
NextRace ==
    \/ \E c \in Conns, m \in Meetings : Quiet /\ JoinStart(c, m)
    \/ \E c \in Conns, p \in Pids : Joined(c) /\ MoveStart(c, p)
    \/ \E c \in Conns, p \in Pids : Joined(c) /\ TransferStart(c, p)
    \/ \E c \in Conns, p \in Pids : Joined(c) /\ KickStart(c, p)
    \/ \E s \in Slots : JoinExisting(s)
    \/ \E s \in Slots : JoinUpsert(s)
    \/ \E s \in Slots : JoinRouter(s)
    \/ \E s \in Slots : JoinLive(s)
    \/ \E s \in Slots : MoveTarget(s)
    \/ \E s \in Slots : MoveUpdate(s)
    \/ \E s \in Slots : TransferTarget(s)
    \/ \E s \in Slots : TransferTxn(s)
    \/ \E s \in Slots : KickTarget(s)
    \/ \E s \in Slots : KickUpdate(s)

SpecRace == Init /\ [][NextRace]_vars

\* Every host control, one request at a time, on connections that have
\* joined; the auto-close timer fires when no handler is suspended.
NextHost ==
    \/ \E c \in Conns, m \in Meetings : Quiet /\ JoinStart(c, m)
    \/ \E c \in Conns : Quiet /\ Joined(c) /\ AskStart(c)
    \/ \E c \in Conns, p \in Pids : Quiet /\ Joined(c) /\ AdmitStart(c, p)
    \/ \E c \in Conns, p \in Pids : Quiet /\ Joined(c) /\ RejectStart(c, p)
    \/ \E c \in Conns, p \in Pids : Quiet /\ Joined(c) /\ MoveStart(c, p)
    \/ \E c \in Conns, p \in Pids : Quiet /\ Joined(c) /\ TransferStart(c, p)
    \/ \E c \in Conns, p \in Pids : Quiet /\ Joined(c) /\ KickStart(c, p)
    \/ \E c \in Conns : Quiet /\ Joined(c) /\ InviteStart(c)
    \/ \E c \in Conns : Quiet /\ Joined(c) /\ EndStart(c)
    \/ \E c \in Conns, g \in BreakoutConfigs, d \in BOOLEAN :
          Quiet /\ Joined(c) /\ CreateStart(c, g, d)
    \/ \E c \in Conns : Quiet /\ Joined(c) /\ CloseStart(c)
    \/ \E c \in Conns : Quiet /\ Joined(c) /\ BroadcastStart(c)
    \/ \E c \in Conns, q \in Qids : Quiet /\ Joined(c) /\ MarkStart(c, q)
    \/ \E c \in Conns, q \in Qids : Quiet /\ Joined(c) /\ PinStart(c, q)
    \/ \E tm \in timers : Quiet /\ TimerFire(tm)
    \/ \E s \in Slots : JoinExisting(s)
    \/ \E s \in Slots : JoinUpsert(s)
    \/ \E s \in Slots : JoinRouter(s)
    \/ \E s \in Slots : JoinLive(s)
    \/ \E s \in Slots : AskCreate(s)
    \/ \E s \in Slots : AskFind(s)
    \/ \E s \in Slots : AdmitUpdate(s)
    \/ \E s \in Slots : RejectUpdate(s)
    \/ \E s \in Slots : MoveTarget(s)
    \/ \E s \in Slots : MoveUpdate(s)
    \/ \E s \in Slots : TransferTarget(s)
    \/ \E s \in Slots : TransferTxn(s)
    \/ \E s \in Slots : KickTarget(s)
    \/ \E s \in Slots : KickUpdate(s)
    \/ \E s \in Slots : InviteMeeting(s)
    \/ \E s \in Slots : InviteCreate(s)
    \/ \E s \in Slots : InviteMail(s)
    \/ \E s \in Slots : EndUpdate(s)
    \/ \E s \in Slots : CreateRow(s)
    \/ \E s \in Slots : CreateRouter(s)
    \/ \E s \in Slots : CreateAssign(s)
    \/ \E s \in Slots : CloseRows(s)
    \/ \E s \in Slots : CloseParts(s)
    \/ \E s \in Slots : BroadcastFind(s)
    \/ \E s \in Slots : QuestionFind(s)
    \/ \E s \in Slots : QuestionUpdate(s)

SpecHost == Init /\ [][NextHost]_vars

\* The media signaling of the connections of one meeting, m2, which has no
\* lobby: the joins arrive one at a time, the media requests overlap.
MediaTypes == {"video", "screen"}

NextMedia ==
    \/ \E c \in Conns : Quiet /\ JoinStart(c, "m2")
    \/ \E c \in Conns, d \in {"send", "recv"} : Joined(c) /\ TransportStart(c, d)
    \/ \E c \in Conns, y \in MediaTypes, ok \in BOOLEAN :
          Joined(c) /\ ProduceStart(c, y, ok)
    \/ \E c \in Conns, id \in 1..MaxMedia : Joined(c) /\ CloseProducer(c, id)
    \/ \E s \in Slots : JoinExisting(s)
    \/ \E s \in Slots : JoinUpsert(s)
    \/ \E s \in Slots : JoinRouter(s)
    \/ \E s \in Slots : JoinLive(s)
    \/ \E s \in Slots : TransportCreate(s)
    \/ \E s \in Slots : TransportBitrate(s)
    \/ \E s \in Slots : ProduceDone(s)

SpecMedia == Init /\ [][NextMedia]_vars

\* Producers that leave: the joins to m2 and the media requests arrive one
\* at a time, and a connection may go away between two of them.
NextLeave ==
    \/ \E c \in Conns : Quiet /\ JoinStart(c, "m2")
    \/ \E c \in Conns : Quiet /\ Joined(c) /\ TransportStart(c, "send")
    \/ \E c \in Conns, y \in MediaTypes : Quiet /\ Joined(c) /\ ProduceStart(c, y, TRUE)
    \/ \E c \in Conns : Quiet /\ Disconnect(c)
    \/ \E s \in Slots : JoinExisting(s)
    \/ \E s \in Slots : JoinUpsert(s)
    \/ \E s \in Slots : JoinRouter(s)
    \/ \E s \in Slots : JoinLive(s)
    \/ \E s \in Slots : TransportCreate(s)
    \/ \E s \in Slots : TransportBitrate(s)
    \/ \E s \in Slots : ProduceDone(s)

SpecLeave == Init /\ [][NextLeave]_vars

\* Media in breakouts: the joins to m2, create-breakout and the media
\* requests, one request at a time.
NextScope ==
    \/ \E c \in Conns : Quiet /\ JoinStart(c, "m2")
    \/ \E c \in Conns, g \in BreakoutConfigs :
          Quiet /\ Joined(c) /\ CreateStart(c, g, FALSE)
    \/ \E c \in Conns, d \in {"send", "recv"} : Quiet /\ Joined(c) /\ TransportStart(c, d)
    \/ \E c \in Conns, y \in MediaTypes : Quiet /\ Joined(c) /\ ProduceStart(c, y, TRUE)
    \/ \E c \in Conns, id \in 1..MaxMedia, can \in BOOLEAN :
          Quiet /\ Joined(c) /\ ConsumeStart(c, id, can)
    \/ \E c \in Conns, id \in 1..MaxMedia : Quiet /\ Joined(c) /\ CloseProducer(c, id)
    \/ \E s \in Slots : JoinExisting(s)
    \/ \E s \in Slots : JoinUpsert(s)
    \/ \E s \in Slots : JoinRouter(s)
    \/ \E s \in Slots : JoinLive(s)
    \/ \E s \in Slots : CreateRow(s)
    \/ \E s \in Slots : CreateRouter(s)
    \/ \E s \in Slots : CreateAssign(s)
    \/ \E s \in Slots : TransportCreate(s)
    \/ \E s \in Slots : TransportBitrate(s)
    \/ \E s \in Slots : ProduceDone(s)
    \/ \E s \in Slots : ConsumeDone(s)

SpecScope == Init /\ [][NextScope]_vars

\* Connections that go away at any point of a request: the joins to m2 and
\* the media requests arrive one at a time, the disconnects at any time.
NextClose ==
    \/ \E c \in Conns : Quiet /\ JoinStart(c, "m2")
    \/ \E c \in Conns, d \in {"send", "recv"} : Quiet /\ Joined(c) /\ TransportStart(c, d)
    \/ \E c \in Conns, y \in MediaTypes : Quiet /\ Joined(c) /\ ProduceStart(c, y, TRUE)
    \/ \E c \in Conns, id \in 1..MaxMedia :
          Quiet /\ Joined(c) /\ ConsumeStart(c, id, TRUE)
    \/ \E c \in Conns : Disconnect(c)
    \/ \E s \in Slots : JoinExisting(s)
    \/ \E s \in Slots : JoinUpsert(s)
    \/ \E s \in Slots : JoinRouter(s)
    \/ \E s \in Slots : JoinLive(s)
    \/ \E s \in Slots : TransportCreate(s)
    \/ \E s \in Slots : TransportBitrate(s)
    \/ \E s \in Slots : ProduceDone(s)
    \/ \E s \in Slots : ConsumeDone(s)

SpecClose == Init /\ [][NextClose]_vars

\* Connections that go away from a breakout: the joins to m2, the requests
\* for breakouts and the disconnects, one at a time.
NextBreak ==
    \/ \E c \in Conns : Quiet /\ JoinStart(c, "m2")
    \/ \E c \in Conns, g \in BreakoutConfigs \cup TwiceConfigs, d \in BOOLEAN :
          Quiet /\ Joined(c) /\ CreateStart(c, g, d)
    \/ \E c \in Conns : Quiet /\ Joined(c) /\ CloseStart(c)
    \/ \E c \in Conns : Quiet /\ Disconnect(c)
    \/ \E tm \in timers : Quiet /\ TimerFire(tm)
    \/ \E s \in Slots : JoinExisting(s)
    \/ \E s \in Slots : JoinUpsert(s)
    \/ \E s \in Slots : JoinRouter(s)
    \/ \E s \in Slots : JoinLive(s)
    \/ \E s \in Slots : CreateRow(s)
    \/ \E s \in Slots : CreateRouter(s)
    \/ \E s \in Slots : CreateAssign(s)
    \/ \E s \in Slots : CloseRows(s)
    \/ \E s \in Slots : CloseParts(s)

SpecBreak == Init /\ [][NextBreak]_vars

\* Breakouts made and closed at the same time: the joins to m2 one at a
\* time, create-breakout and close-breakouts at any time.
NextMove ==
    \/ \E c \in Conns : Quiet /\ JoinStart(c, "m2")
    \/ \E c \in Conns, g \in BreakoutConfigs : Joined(c) /\ CreateStart(c, g, FALSE)
    \/ \E c \in Conns : Joined(c) /\ CloseStart(c)
    \/ \E s \in Slots : JoinExisting(s)
    \/ \E s \in Slots : JoinUpsert(s)
    \/ \E s \in Slots : JoinRouter(s)
    \/ \E s \in Slots : JoinLive(s)
    \/ \E s \in Slots : CreateRow(s)
    \/ \E s \in Slots : CreateRouter(s)
    \/ \E s \in Slots : CreateAssign(s)
    \/ \E s \in Slots : CloseRows(s)
    \/ \E s \in Slots : CloseParts(s)

SpecMove == Init /\ [][NextMove]_vars

\* Breakouts opened and closed in m2: the joins may overlap, the host
\* controls arrive when no handler is suspended.
NextRound ==
    \/ \E c \in Conns : JoinStart(c, "m2")
    \/ \E c \in Conns, g \in BreakoutConfigs, d \in BOOLEAN :
          Quiet /\ Joined(c) /\ CreateStart(c, g, d)
    \/ \E c \in Conns : Quiet /\ Joined(c) /\ CloseStart(c)
    \/ \E tm \in timers : Quiet /\ TimerFire(tm)
    \/ \E s \in Slots : JoinExisting(s)
    \/ \E s \in Slots : JoinUpsert(s)
    \/ \E s \in Slots : JoinRouter(s)
    \/ \E s \in Slots : JoinLive(s)
    \/ \E s \in Slots : CreateRow(s)
    \/ \E s \in Slots : CreateRouter(s)
    \/ \E s \in Slots : CreateAssign(s)
    \/ \E s \in Slots : CloseRows(s)
    \/ \E s \in Slots : CloseParts(s)

SpecRound == Init /\ [][NextRound]_vars

\* Upvotes that overlap: the joins to m2 and the questions arrive one at a
\* time, the upvote requests at any time.
NextUpvote ==
    \/ \E c \in Conns : Quiet /\ JoinStart(c, "m2")
    \/ \E c \in Conns : Quiet /\ Joined(c) /\ AskStart(c)
    \/ \E c \in Conns, q \in Qids : Joined(c) /\ UpvoteStart(c, q)
    \/ \E s \in Slots : JoinExisting(s)
    \/ \E s \in Slots : JoinUpsert(s)
    \/ \E s \in Slots : JoinRouter(s)
    \/ \E s \in Slots : JoinLive(s)
    \/ \E s \in Slots : AskCreate(s)
    \/ \E s \in Slots : AskFind(s)
    \/ \E s \in Slots : UpvoteFind(s)
    \/ \E s \in Slots : UpvoteToggle(s)
    \/ \E s \in Slots : UpvoteCount(s)
    \/ \E s \in Slots : UpvoteQuestion(s)
    \/ \E s \in Slots : UpvoteBreakouts(s)

SpecUpvote == Init /\ [][NextUpvote]_vars

\* Requests under the rate limiter, on sockets that have joined no meeting:
\* c1 sends media signaling, c2 questions and rejections of a participant
\* that has no row.
NextRate ==
    \/ Tick
    \/ Arrive("c1", "create-transport", NoPid)
    \/ Arrive("c2", "ask-question", NoPid)
    \/ Arrive("c2", "lobby-reject", <<"u1", "m2">>)
    \/ \E c \in {"c1", "c2"} : Disconnect(c)
    \/ \E s \in Slots : RejectUpdate(s)

SpecRate == Init /\ [][NextRate]_vars

\* The scheduler beside the joins to m2 and the connections that go away.
NextCron ==
    \/ \E c \in Conns : Quiet /\ JoinStart(c, "m2")
    \/ \E s \in Slots : JoinExisting(s)
    \/ \E s \in Slots : JoinUpsert(s)
    \/ \E s \in Slots : JoinGone(s)
    \/ \E s \in Slots : JoinRouter(s)
    \/ \E s \in Slots : JoinLive(s)
    \/ \E c \in Conns : Disconnect(c)
    \/ Later
    \/ CronTick
    \/ CronDue
    \/ \E ok \in BOOLEAN : CronMail(ok)
    \/ CronMark
    \/ CronStale
    \/ CronDelete

SpecCron == Init /\ [][NextCron]_vars

\* The chat of meeting m2: c2 joins, and the messages and the requests for
\* the history arrive one at a time.
NextChat ==
    \/ Quiet /\ JoinStart("c2", "m2")
    \/ \E s \in Slots : JoinExisting(s)
    \/ \E s \in Slots : JoinUpsert(s)
    \/ \E s \in Slots : JoinRouter(s)
    \/ \E s \in Slots : JoinLive(s)
    \/ \E valid \in BOOLEAN : Quiet /\ ChatStart("c2", valid)
    \/ \E s \in Slots : ChatCreate(s)
    \/ Quiet /\ HistoryStart("c2")
    \/ \E s \in Slots : HistoryFind(s)

SpecChat == Init /\ [][NextChat]_vars

\* The number of requests of a run of the chat of the lobby and the breakouts.
MaxTalk == 5

\* The chat of the lobby and of the breakouts: the joins, create-breakout,
\* the messages and the requests for the history, one at a time; no
\* connection leaves a lobby or a breakout.
NextTalk ==
    \/ \E c \in Conns, m \in Meetings : Quiet /\ JoinStart(c, m)
    \/ \E c \in Conns, g \in BreakoutConfigs :
          Quiet /\ Joined(c) /\ CreateStart(c, g, FALSE)
    \/ \E c \in Conns : Quiet /\ Joined(c) /\ nreq < MaxTalk /\ ChatStart(c, TRUE)
    \/ \E c \in Conns : Quiet /\ Joined(c) /\ nreq < MaxTalk /\ HistoryStart(c)
    \/ \E s \in Slots : JoinExisting(s)
    \/ \E s \in Slots : JoinUpsert(s)
    \/ \E s \in Slots : JoinRouter(s)
    \/ \E s \in Slots : JoinLive(s)
    \/ \E s \in Slots : CreateRow(s)
    \/ \E s \in Slots : CreateRouter(s)
    \/ \E s \in Slots : CreateAssign(s)
    \/ \E s \in Slots : ChatCreate(s)
    \/ \E s \in Slots : HistoryFind(s)

SpecTalk == Init /\ [][NextTalk]_vars

\* The worker pool: workers die, replacements arrive, and rooms ask for the
\* next worker.
NextPool ==
    \/ \E w \in 1..MaxWorkers : WorkerDied(w)
    \/ Replaced
    \/ GetNextWorker

SpecPool == Init /\ [][NextPool]_vars

\* ----------------------------------------------------------------- claims
\* C1: every scope of every Room (its main peers, or the peers of one of
\* its breakouts) holds at most one open screen producer, under every
\* interleaving of produce requests, two in flight at once and repeated
\* requests of one connection included.
C1_OneScreenShare ==
    \A i \in RoomIds :
        roomObj[i].alloc =>
            /\ Cardinality(ScreenProducers(roomObj[i].peers, peerObj)) <= 1
            /\ \A b \in BrIds :
                  Cardinality(ScreenProducers(roomObj[i].br[b].peers, peerObj)) <= 1

\* The peer maps (the main scope or one breakout of a Room of the map) that
\* have connection c as a key.
PeerMapsOf(c) ==
    {<<m, "main">> : m \in {x \in Meetings :
        rooms[x] # 0 /\ roomObj[rooms[x]].peers[c] # 0}}
    \cup
    {<<e[1], e[2]>> : e \in {x \in Meetings \X BrIds :
        rooms[x[1]] # 0 /\ roomObj[rooms[x[1]]].br[x[2]].peers[c] # 0}}

\* C2: every connection id is a key of at most one peer map (the main peers
\* or one breakout's peers) of at most one Room, after any sequence of
\* join-meeting, lobby-admit, move-to-lobby, kick and disconnect.
C2_OnePeerMap == \A c \in Conns : Cardinality(PeerMapsOf(c)) <= 1

\* C3: every connection is a member of at most one broadcast group among
\* lobby:<code>, meeting:<code> and breakout:<id>.
C3_OneGroup == \A c \in Conns : Cardinality(sock[c].groups) <= 1

\* The participants of meeting m whose role is HOST.
HostRows(m) == {p \in Pids : p[2] = m /\ participant[p].ex /\ participant[p].role = "HOST"}

\* C4: exactly one participant of every meeting has role HOST, whatever
\* newHostId the transfer-host requests carry.
C4_OneHost == \A m \in Meetings : Cardinality(HostRows(m)) = 1

\* C5: the hostId of a meeting is the userId of every participant of the
\* meeting that holds role HOST.
C5_HostIdIsHost ==
    \A m \in Meetings : \A p \in HostRows(m) : meeting[m].hostId = p[1]

\* The events of the handlers that check the caller for HOST or CO_HOST.
HostOnly == {"lobby-admit", "lobby-reject", "move-to-lobby", "kick-participant",
             "invite-participant", "end-meeting", "create-breakout",
             "close-breakouts", "broadcast-to-breakouts", "mark-answered",
             "pin-question"}

\* The role of the participant the connection is bound to.
CallerRole(c) == participant[sock[c].pid].role

\* C6: a host-only request received from a connection whose participant has
\* role PARTICIPANT changes no durable row, no Room or Peer, no group
\* membership and suspends no handler; a transfer-host request received
\* from a connection whose participant does not hold role HOST changes no
\* participant row and suspends no handler.
C6_HostOnly ==
    [][(nreq' # nreq /\ Joined(last'.c)) =>
          /\ (last'.ev \in HostOnly /\ CallerRole(last'.c) = "PARTICIPANT") =>
                 UNCHANGED <<dbVars, memVars, sock, hostVars, tasks>>
          /\ (last'.ev = "transfer-host" /\ CallerRole(last'.c) # "HOST") =>
                 UNCHANGED <<dbVars, memVars, sock, hostVars, tasks>>]_vars

\* The previous host of m1, a PARTICIPANT since a transfer-host completed,
\* has sent a transfer-host request and the handler ended at its check.
C6_Refused ==
    /\ Quiet
    /\ last = Request("transfer-host", "c1", FALSE)
    /\ sock["c1"].pid = <<"u1", "m1">>
    /\ participant[<<"u1", "m1">>].role = "PARTICIPANT"
    /\ participant[<<"u2", "m1">>].role = "HOST"

\* The host-only events and transfer-host, and a step of a handler of one
\* of them.
HostEvents == HostOnly \cup {"transfer-host"}

HostStep == \E s \in Slots : tasks[s].ev \in HostEvents /\ tasks'[s] # tasks[s]

\* The connections that have a Peer of participant p in a Room of the map,
\* and those bound to p that are members of the meeting group.
PeerConns(p) ==
    {c \in Conns : \E m \in Meetings :
        /\ rooms[m] # 0
        /\ GetPeer(roomObj[rooms[m]], c) # 0
        /\ peerObj[GetPeer(roomObj[rooms[m]], c)].pid = p}

MeetingConns(p) ==
    {c \in Conns : sock[c].pid = p /\ Group("meeting", p[2]) \in sock[c].groups}

IsRemoved(p) ==
    /\ participant[p].ex
    /\ participant[p].status = "REMOVED"
    /\ participant[p].role = "PARTICIPANT"

\* C7: a step that is not a step of a host's handler leaves a participant
\* with role PARTICIPANT and status REMOVED in status REMOVED, gives no
\* connection a Peer of that participant and puts no connection of that
\* participant in the meeting group.
C7_RemovedStays ==
    [][\A p \in Pids :
         (IsRemoved(p) /\ ~HostStep) =>
            /\ participant'[p].status = "REMOVED"
            /\ PeerConns(p)' \subseteq PeerConns(p)
            /\ MeetingConns(p)' \subseteq MeetingConns(p)]_vars

\* C8: a participant that join-meeting created IN_LOBBY, and that is still
\* not a host, has no Peer in a Room, no connection in meeting:<code> and
\* is not IN_MEETING as long as no host's lobby-admit has run for it.
C8_HeldUntilAdmitted ==
    \A p \in waiting :
        participant[p].role = "PARTICIPANT" =>
            /\ participant[p].status # "IN_MEETING"
            /\ PeerConns(p) = {}
            /\ MeetingConns(p) = {}

\* The join-meeting handler of slot s writes the participant row.
Upserting(s) == tasks[s].ev = "join-meeting" /\ tasks[s].pc = "upsert"

JoinPid(s) == <<UserOf(tasks[s].c), tasks[s].code>>

\* C9: a join-meeting that finds the row IN_MEETING keeps it IN_MEETING and
\* does not put the connection in the lobby group; a join-meeting of a user
\* who is not the host that finds the row IN_LOBBY keeps it IN_LOBBY, puts
\* the connection in the lobby group and goes no further.
C9_Rejoin ==
    [][\A s \in Slots :
         (Upserting(s) /\ JoinUpsert(s) /\ participant[JoinPid(s)].ex) =>
            /\ (tasks[s].ex = "IN_MEETING" /\ participant[JoinPid(s)].status = "IN_MEETING") =>
                   /\ participant'[JoinPid(s)].status = "IN_MEETING"
                   /\ sock'[tasks[s].c].groups \ sock[tasks[s].c].groups
                          \subseteq {Group("meeting", tasks[s].code)}
            /\ (/\ tasks[s].ex = "IN_LOBBY"
                /\ participant[JoinPid(s)].status = "IN_LOBBY"
                /\ participant[JoinPid(s)].role = "PARTICIPANT"
                /\ tasks[s].host # UserOf(tasks[s].c)) =>
                   /\ participant'[JoinPid(s)].status = "IN_LOBBY"
                   /\ Group("lobby", tasks[s].code) \in sock'[tasks[s].c].groups
                   /\ tasks'[s] = Idle]_vars

\* The handler of slot s is a kick-participant or a move-to-lobby about to
\* write the status of its target.
Removing(s) ==
    /\ tasks[s].ev \in {"kick-participant", "move-to-lobby"}
    /\ tasks[s].pc = "update"
    /\ Joined(tasks[s].c)

IsHost(p) == participant[p].ex /\ participant[p].role = "HOST"

\* C10: the status write and the Peer removal of kick-participant and of
\* move-to-lobby leave the status and the Peers of every participant that
\* holds role HOST as they are.
C10_HostUntouched ==
    [][\A s \in Slots :
         (Removing(s) /\ tasks'[s] = Idle) =>
            \A p \in Pids : IsHost(p) =>
                /\ participant'[p].status = participant[p].status
                /\ PeerConns(p) \subseteq PeerConns(p)']_vars

\* The handler of slot s is an end-meeting whose meeting.update returns.
Ending(s) ==
    /\ tasks[s].ev = "end-meeting"
    /\ tasks[s].pc = "update"
    /\ tasks[s].code # None

\* C11: when an authorized end-meeting completes, the meeting is ENDED, the
\* map has no Room under the code, 'meeting-ended' was sent to the meeting
\* group and every connection that was a member of the meeting group is
\* disconnected.
C11_EndMeeting ==
    [][\A s \in Slots :
         (Ending(s) /\ tasks'[s] = Idle) =>
            /\ meeting'[tasks[s].code].status = "ENDED"
            /\ rooms'[tasks[s].code] = 0
            /\ \E k \in 1..Len(out') :
                  /\ out'[k].ev = "meeting-ended"
                  /\ out'[k].group = Group("meeting", tasks[s].code)
            /\ \A c \in Members(sock, Group("meeting", tasks[s].code)) :
                  sock'[c].st = "closed"]_vars

\* The groups of meeting m: its meeting group, its lobby group and the
\* groups of its breakout rooms.
GroupsOf(m) ==
    {Group("meeting", m), Group("lobby", m)}
        \cup {Group("breakout", b) : b \in {x \in BrIds : breakout[x].meetingId = m}}

\* C12: once the Room of a meeting has been closed, and as long as no Room
\* is created for the meeting again, no step emits an event to the meeting
\* group, the lobby group or a breakout group of that meeting.
C12_QuietAfterClose ==
    [][\A m \in shut \cap shut' :
         \A k \in 1..Len(out') : out'[k].group \notin GroupsOf(m)]_vars

\* The open screen producers of the Peer that connection c has in the main
\* scope of the Room of its meeting.
ScreenOf(c) ==
    IF sock[c].code = None \/ rooms[sock[c].code] = 0 THEN {}
    ELSE LET old == roomObj[rooms[sock[c].code]].peers[c]
         IN  IF old = 0 THEN {}
             ELSE {pr.id : pr \in {x \in peerObj[old].prods : x.type = "screen"}}

\* The other connections with a Peer in the main scope of the Room of c.
OthersOf(c) ==
    IF sock[c].code = None \/ rooms[sock[c].code] = 0 THEN {}
    ELSE {d \in Conns : roomObj[rooms[sock[c].code]].peers[d] # 0} \ {c}

\* The 'producer-closed' events of the last step that name producer id and
\* reach connection d.
ClosedFor(id, d, evs) ==
    {k \in 1..Len(evs) : evs[k].ev = "producer-closed" /\ evs[k].id = id /\ d \in evs[k].to}

\* C13: when a connection whose Peer owns an open screen producer goes
\* away, every other peer of its scope receives exactly one
\* 'producer-closed' event naming that producer.
C13_OneProducerClosed ==
    [][\A c \in Conns :
         (sock[c].st = "open" /\ sock'[c].st = "closed") =>
            \A id \in ScreenOf(c) : \A d \in OthersOf(c) :
               Cardinality(ClosedFor(id, d, out')) = 1]_vars

\* C14: for every Peer held in the peer map of a breakout, each transport
\* the Peer holds was created on the router of that breakout.
C14_BreakoutRouter ==
    \A i \in RoomIds : \A b \in BrIds : \A c \in Conns :
        LET p == roomObj[i].br[b].peers[c]
        IN  (roomObj[i].alloc /\ p # 0) =>
               /\ peerObj[p].send # 0 => peerObj[p].sendOn = b
               /\ peerObj[p].recv # 0 => peerObj[p].recvOn = b

\* The scopes (the main scope or a breakout) of the Room of the meeting of
\* connection c, in the map rm and the heap ro, that hold a Peer under c.
ScopesOf(rm, ro, sk, c) ==
    IF sk[c].code = None \/ rm[sk[c].code] = 0 THEN {}
    ELSE LET r == ro[rm[sk[c].code]]
         IN  {x \in {"main"} : r.peers[c] # 0}
                \cup {b \in BrIds : r.br[b].peers[c] # 0}

\* Connections c and d have Peers in different scopes.
OtherScope(rm, ro, sk, c, d) ==
    \E x \in ScopesOf(rm, ro, sk, c) : \E y \in ScopesOf(rm, ro, sk, d) : x # y

\* The events about producers.
ProducerEvents == {"new-producer", "producer-paused", "producer-resumed", "producer-closed"}

\* The connection whose request the step serves, when the step is the end
\* of a produce handler or a close-producer request.
Producing(c) ==
    \/ \E s \in Slots : tasks[s].ev = "produce" /\ tasks[s].c = c /\ tasks'[s] = Idle
    \/ nreq' # nreq /\ last'.ev = "close-producer" /\ last'.c = c

\* A Peer of a Room of the map holds a consumer of a producer that a Peer of
\* another scope of the Room owns.
CrossConsumer(rm, ro, po) ==
    \E m \in Meetings : rm[m] # 0 /\
        \E c, d \in Conns :
            \E x \in {"main"} \cup BrIds, y \in {"main"} \cup BrIds :
                LET r == ro[rm[m]]
                    p == IF x = "main" THEN r.peers[c] ELSE r.br[x].peers[c]
                    q == IF y = "main" THEN r.peers[d] ELSE r.br[y].peers[d]
                IN  /\ x # y /\ p # 0 /\ q # 0
                    /\ \E k \in po[p].cons : \E pr \in po[q].prods : k.prod = pr.id

\* C15: no Peer holds a consumer of a producer owned by a Peer of another
\* scope, and an event about a producer caused by a connection of one
\* scope is never delivered to a connection of another scope.
C15_ScopesIsolated ==
    [][/\ ~CrossConsumer(rooms', roomObj', peerObj')
       /\ \A c \in Conns : Producing(c) =>
             \A k \in 1..Len(out') :
                out'[k].ev \in ProducerEvents =>
                   \A d \in out'[k].to : ~OtherScope(rooms', roomObj', sock', c, d)]_vars

\* closeBreakoutRooms of slot s ends with this step, after a create-breakout
\* of the same meeting with only close-breakouts requests since, and every
\* member of the meeting group of then is still connected.
RoundTrip(s) ==
    /\ tasks[s].ev = "close-breakouts" /\ tasks[s].pc = "parts"
    /\ tasks'[s] = Idle
    /\ last.seq
    /\ last.mc = tasks[s].code
    /\ \A c \in last.pre : sock[c].st = "open"

\* C16: create-breakout followed by close-breakouts, by request or by the
\* timer, leaves the members of meeting:<code> as they were before
\* create-breakout, each with a Peer in the main scope, and leaves the Room
\* without breakouts.
C16_BreakoutRoundTrip ==
    [][\A s \in Slots :
         RoundTrip(s) =>
            LET code == tasks[s].code
            IN  /\ Members(sock', Group("meeting", code)) = last.pre
                /\ rooms'[code] # 0
                /\ \A c \in last.pre : roomObj'[rooms'[code]].peers[c] # 0
                /\ \A b \in BrIds : ~roomObj'[rooms'[code]].br[b].has]_vars

\* The close-breakouts handler of slot s, called by a request and not by a
\* timer, ends with this step.
ManualClose(s) ==
    /\ tasks[s].ev = "close-breakouts" /\ tasks[s].kind # "timer"
    /\ tasks[s].pc = "parts"
    /\ tasks'[s] = Idle

\* C17: when a close-breakouts request has been served, no auto-close timer
\* armed by an earlier create-breakout of the meeting is left to expire and
\* run closeBreakoutRooms.
C17_TimerCancelled ==
    [][\A s \in Slots :
         ManualClose(s) => \A tm \in timers' : tm.code # tasks[s].code]_vars

\* C18: the breakoutRoomId of a participant row is set exactly when the
\* status of the row is IN_BREAKOUT.
C18_BreakoutIdIffStatus ==
    \A p \in Pids :
        participant[p].ex =>
            (participant[p].brId # None <=> participant[p].status = "IN_BREAKOUT")

\* The create or the delete of the upvote handler of slot s fails in this
\* step.
ToggleThrows(s) ==
    /\ tasks[s].ev = "upvote-question" /\ tasks[s].pc = "toggle"
    /\ tasks'[s] = Idle

\* C19: a user has at most one upvote row for a question, whatever the
\* interleaving of the upvote requests, and a request whose create or
\* delete fails leaves the rows as they were.
C19_OneUpvote ==
    [][/\ \A q \in Qids, u \in Users : Cardinality(UpvotesOf(upvote', q, u)) <= 1
       /\ \A s \in Slots : ToggleThrows(s) => upvote' = upvote]_vars

\* Two upvote requests of one user race: the row of the pair is there, and
\* a handler that found none is about to create it.
C19_Racing ==
    \E s \in Slots :
        /\ tasks[s].ev = "upvote-question" /\ tasks[s].pc = "toggle"
        /\ tasks[s].tr = 0
        /\ UpvotesOf(upvote, tasks[s].q, tasks[s].uid) # {}

\* The step counts an event in the counter of connection c and category
\* cat.
Arrived(c, cat) ==
    counters'[c][cat].has /\ counters'[c][cat] # counters[c][cat]

\* The event the step counts is denied: the bucket has allowed no event
\* more.
Denied(c, cat) ==
    counters'[c][cat].ok =
        IF Expired(counters[c][cat], now) THEN 0 ELSE counters[c][cat].ok

\* C20: in each bucket of each connection and category checkRateLimit
\* allows at most the limit of the category; an event of a bucket that has
\* allowed that many is denied; and a denied request starts no handler,
\* sends nothing and leaves the socket as it is.
C20_RateLimit ==
    [][\A c \in Conns, cat \in Categories :
         /\ counters'[c][cat].ok <= LIMITS[cat].maxEvents
         /\ Arrived(c, cat) =>
               /\ (/\ ~Expired(counters[c][cat], now)
                   /\ counters[c][cat].ok = LIMITS[cat].maxEvents) => Denied(c, cat)
               /\ Denied(c, cat) =>
                     /\ tasks' = tasks /\ last' = last
                     /\ sock' = sock /\ out' = <<>>]_vars

\* Each of the three senders has had an event denied.
C20_Limited ==
    /\ Exceeds(counters["c1"]["media"].count, LIMITS["media"].maxEvents)
    /\ Exceeds(counters["c2"]["chat"].count, LIMITS["chat"].maxEvents)
    /\ Exceeds(counters["c2"]["admin"].count, LIMITS["admin"].maxEvents)

\* The connection has disconnected and none of its handlers is suspended.
Gone(c) == sock[c].st = "closed" /\ \A s \in Slots : tasks[s].c # c

\* C21: once a connection has disconnected and its handlers have finished,
\* the counter table of the rate limiter holds no entry for it, also when
\* it sent rate-limited events without ever joining a meeting.
C21_CountersFreed ==
    \A c \in Conns : Gone(c) => \A cat \in Categories : ~counters[c][cat].has

\* C22: no Peer holds a consumer of one of its own producers.
C22_NoSelfConsume ==
    \A p \in PeerIds : \A k \in peerObj[p].cons :
        \A pr \in peerObj[p].prods : pr.id # k.prod

\* The requests of the media signaling whose handler answers with an
\* acknowledgement on every path: its callback is called at a failed check,
\* after the last await, and in its catch.
AckEvents == {"create-transport", "produce", "consume"}

\* The last request received was one of connection c with an ack, and its
\* handler has ended: its ack has been sent.
LastAcked(c) ==
    /\ last.c = c /\ last.ev \in AckEvents
    /\ \A q \in Slots : ~(tasks[q].ev \in AckEvents /\ tasks[q].id = nreq)

\* The handler of slot s ends in this step and sends its ack on an open
\* connection.
AckNow(s) ==
    /\ tasks[s].ev \in AckEvents /\ tasks'[s] = Idle
    /\ sock[tasks[s].c].st = "open"

\* C23: the acks of two requests of one connection are sent in the order
\* the requests were received: no handler sends its ack when the ack of a
\* later request of its connection has been sent already.
C23_AckOrder ==
    [][\A s \in Slots :
         AckNow(s) => ~(tasks[s].id < nreq /\ LastAcked(tasks[s].c))]_vars

\* C24: an EMAIL reminder is marked sent only when every sendMail for it
\* has succeeded: one for which a send has failed stays unsent in that
\* tick, for a later tick to select it again.
C24_MarkedWhenAllSent ==
    [][\A r \in Rids :
         (ReminderType(r) = "EMAIL" /\ ~cron.rem[r].sent /\ cron'.rem[r].sent)
             => ~cron.failed]_vars

\* A connection of a participant of meeting m is connected: it is open and
\* has a Peer in the Room of m, or waits in its lobby.
Connected(m) ==
    \E c \in Conns :
        /\ sock[c].st = "open"
        /\ \/ Group("lobby", m) \in sock[c].groups
           \/ \E e \in PeerMapsOf(c) : e[1] = m

\* C25: the cleanup deletes no LIVE meeting while a connection of one of
\* its participants is connected.
C25_NoLiveDeleted ==
    [][\A m \in Meetings :
         (meeting[m].ex /\ ~meeting'[m].ex /\ meeting[m].status = "LIVE")
             => ~Connected(m)]_vars

\* The rows of the meeting a get-chat-history handler reads, in ascending
\* createdAt order.
RowsOf(s) == Ascending(chat.rows, tasks[s].mid)

\* C26: get-chat-history answers with the 100 most recent messages of the
\* meeting in ascending createdAt order; with more than 100 messages the
\* answer ends with the newest one.
C26_LatestHundred ==
    [][\A s \in Slots :
         (tasks[s].ev = "get-chat-history" /\ tasks'[s] = Idle)
             => chat'.hist = TakeLast(RowsOf(s), TakeLimit)]_vars

\* C27: once a connection has disconnected and every handler has finished,
\* no peer map of any Room holds a Peer under its id, and the Room of its
\* meeting, if the map still has one, is not empty.
C27_NoPeerLeft ==
    \A c \in Conns :
        (sock[c].st = "closed" /\ Quiet) =>
            /\ PeerMapsOf(c) = {}
            /\ (sock[c].code # None /\ rooms[sock[c].code] # 0)
                  => ~IsEmpty(roomObj[rooms[sock[c].code]])

\* The workers of the array.
InPool(p) == {p.workers[k].id : k \in 1..Len(p.workers)}

\* C28: a dead worker is taken out of the pool and replaced: with every
\* replacement arrived the pool holds NUM_WORKERS workers, all of them
\* alive; and every getNextWorker returns a worker of the pool, also
\* between a death and the arrival of the replacement.
C28_PoolRestored ==
    [][/\ pool'.pending = 0 =>
             /\ Len(pool'.workers) = NumWorkers
             /\ InPool(pool') \subseteq pool'.alive
       /\ (pool'.alive = pool.alive /\ pool'.workers = pool.workers)
             => pool'.got \in InPool(pool)]_vars

\* C29: a peer's send transport and its recv transport are each set at most
\* once: no step puts a transport on a Peer in place of another one the Peer
\* holds.
C29_SetOnce ==
    [][\A i \in PeerIds :
          /\ (peerObj[i].send # 0 /\ peerObj'[i].send # 0)
                => peerObj'[i].send = peerObj[i].send
          /\ (peerObj[i].recv # 0 /\ peerObj'[i].recv # 0)
                => peerObj'[i].recv = peerObj[i].recv]_vars

\* C30: once Peer.close has been called on a Peer, no transport, producer
\* or consumer is stored on it, also when a request for the Peer was
\* suspended at a call of the SFU at the time of the close.
C30_ClosedHoldsNothing ==
    \A i \in PeerIds : peerObj[i].closed => ~PeerHolds(peerObj[i])

\* C31: Room.close leaves the Room with no peer in any scope: a Room that
\* has been closed is empty, also when it had peers in breakouts.
C31_ClosedRoomEmpty ==
    \A i \in RoomIds : roomObj[i].closed => IsEmpty(roomObj[i])

\* C32: a disconnect of a connection whose Peer sits in any scope of its
\* Room, main or breakout, sends 'participant-left' to the meeting.
C32_LeftFromAnyScope ==
    [][\A c \in Conns :
          (/\ sock[c].st = "open" /\ sock'[c].st # "open"
           /\ PeerOf(c) # 0)
             => \E k \in 1..Len(out') : out'[k].ev = "participant-left"]_vars

\* The request of a create-breakout handler lists a participantId in two
\* rooms: in two of the rooms still to be made (the first of them is the
\* one in the making), or in one of them and in a room made before.
Twice(t) ==
    \E p \in Pids :
       \/ \E j, k \in 1..Len(t.cfgs) :
             /\ j # k
             /\ \E x \in 1..Len(t.cfgs[j]) : t.cfgs[j][x] = p
             /\ \E y \in 1..Len(t.cfgs[k]) : t.cfgs[k][y] = p
       \/ \E x \in 1..Len(t.created), k \in 1..Len(t.cfgs) :
             /\ t.created[x][2] = p
             /\ \E y \in 1..Len(t.cfgs[k]) : t.cfgs[k][y] = p

\* C33: a create-breakout request that lists a participantId in more than
\* one room is rejected at validation: no step of its handler changes a
\* durable row, the Room or the groups of a socket.
C33_TwiceRejected ==
    [][\A s \in Slots :
          (/\ tasks[s].ev = "create-breakout" /\ Twice(tasks[s])
           /\ tasks'[s] # tasks[s])
             => UNCHANGED <<breakout, participant, rooms, roomObj, peerObj, sock>>]_vars

\* C34: the messages of a breakout stay in the breakout: a message whose
\* 'new-chat' went to breakout:<id> is in no answer of get-chat-history
\* to a connection that is not in that breakout, and its push reaches the
\* members of the breakout only.
C34_BreakoutChatStays ==
    /\ \A k \in 1..Len(chat.hist) :
          chat.hist[k].scope[1] = "breakout"
             => chat.hist[k].scope \in sock[chat.asker].groups
    /\ \A k \in 1..Len(out) :
          (out[k].ev = "new-chat" /\ out[k].group[1] = "breakout")
             => \A c \in out[k].to : out[k].group \in sock[c].groups

\* C35: for every interleaving of the joins to a meeting one Room is made
\* for its code: no step puts another Room in the map under a code that
\* has a Room, which would leave the peers of the first Room outside the
\* Room of the map.
C35_OneRoomPerCode ==
    [][\A m \in Meetings :
          (rooms[m] # 0 /\ rooms'[m] # 0) => rooms'[m] = rooms[m]]_vars

\* The host actions that write a participant row.
RowActions == {"lobby-admit", "lobby-reject", "move-to-lobby", "kick-participant",
               "transfer-host", "create-breakout"}

\* C36: a host action changes the row only of a participant of the
\* caller's own meeting: no step of its handler changes a participant row
\* of another meeting.
C36_OwnMeetingOnly ==
    [][\A s \in Slots :
          (tasks[s].ev \in RowActions /\ tasks'[s] # tasks[s])
             => \A p \in Pids :
                   p[2] # tasks[s].code => participant'[p] = participant[p]]_vars

\* The connections that are there for participant p: those with a Peer of p
\* in a scope of a Room, and those bound to p that are in the group of its
\* meeting or of a breakout.
StillIn(p, ro, po, sk) ==
    {c \in Conns :
        \/ \E i \in RoomIds : \E x \in RoomPeerIds(ro[i]) :
              po[x].pid = p /\ po[x].c = c
        \/ /\ sk[c].pid = p
           /\ \E g \in sk[c].groups :
                 g = Group("meeting", p[2]) \/ g[1] = "breakout"}

\* C37: once a kick-participant, lobby-reject or move-to-lobby handler has
\* set a participant of the caller's meeting to REMOVED or IN_LOBBY and has
\* completed, the participant has no Peer in any scope of a Room and its
\* connection is in neither the group of the meeting nor that of a
\* breakout.
C37_RemovedIsOut ==
    [][\A s \in Slots :
          (/\ tasks[s].ev \in {"kick-participant", "lobby-reject", "move-to-lobby"}
           /\ tasks[s].pc = "update"
           /\ tasks'[s] = Idle
           /\ tasks[s].pid[2] = tasks[s].code
           /\ participant[tasks[s].pid].ex)
             => StillIn(tasks[s].pid, roomObj', peerObj', sock') = {}]_vars

\* C38: ENDED is terminal: a meeting that is ENDED stays ENDED, and no Room
\* is put in the map under its code afterwards.
C38_EndedIsTerminal ==
    [][\A m \in Meetings :
          (meeting[m].ex /\ meeting[m].status = "ENDED")
             => /\ meeting'[m].ex => meeting'[m].status = "ENDED"
                /\ rooms[m] = 0 => rooms'[m] = 0]_vars

\* Connection c is held in the lobby: bound to a participant that is
\* IN_LOBBY, and in the lobby group of its meeting.
InLobby(c) ==
    /\ sock[c].pid # NoPid
    /\ participant[sock[c].pid].status = "IN_LOBBY"
    /\ Group("lobby", sock[c].code) \in sock[c].groups

\* C39: a connection held in the lobby cannot act in the meeting: its
\* send-chat stores no row and sends nothing to a group, and its
\* get-chat-history is answered with no message.
C39_LobbyIsOutside ==
    [][\A s \in Slots :
          (/\ tasks[s].ev \in {"send-chat", "get-chat-history"}
           /\ tasks'[s] = Idle
           /\ InLobby(tasks[s].c))
             => /\ chat'.rows = chat.rows
                /\ out' = <<>>
                /\ tasks[s].ev = "get-chat-history" => chat'.hist = <<>>]_vars

\* The connection ids a Room holds, over all its scopes.
ConnsIn(r) ==
    {c \in Conns : r.peers[c] # 0 \/ \E b \in BrIds : r.br[b].peers[c] # 0}

\* C40: movePeerToBreakout, movePeerToMain and closeAllBreakouts lose no
\* peer: a step of create-breakout or of close-breakouts, which call them,
\* leaves the Room with the connection ids it had, also when the breakout
\* named does not exist.
C40_NoPeerLost ==
    [][\A s \in Slots :
          (/\ tasks[s].ev \in {"create-breakout", "close-breakouts"}
           /\ tasks'[s] # tasks[s]
           /\ tasks[s].room # 0
           /\ roomObj'[tasks[s].room].alloc)
             => ConnsIn(roomObj'[tasks[s].room]) = ConnsIn(roomObj[tasks[s].room])]_vars

=========================================================================
